---- MODULE Spec2Model ----
(***************************************************************************)
(* Model of the Shopify synchronisation engine of Agentix-Chat-Backend:    *)
(* app/services/shopify_sync_service.py (ShopifySyncService) together with *)
(* the page fetches of app/services/shopify_api_service.py, the token      *)
(* lookup of app/services/auth_service.py and the tables of                *)
(* app/models/shopify_data.py.                                             *)
(*                                                                         *)
(* The relational store is a record of tables, each a set of rows with an  *)
(* auto-incremented id.  A SQLAlchemy session (autoflush=False) is the     *)
(* field pend: the writes made on ORM objects that the next db.commit()    *)
(* flushes.  A coroutine runs atomically from one network await to the     *)
(* next, so one action is one such stretch of code.                        *)
(*                                                                         *)
(* Not modelled: failures raised by the database itself, the bookkeeping   *)
(* column last_synced, start_time/end_time/duration_seconds, and the       *)
(* business columns that are assigned next to the ones kept here.          *)
(***************************************************************************)
EXTENDS Integers, Sequences, FiniteSets, TLC

(* ---------------------------------------------------------------------- *)
(* Bounds                                                                  *)
(* ---------------------------------------------------------------------- *)
MaxOps == 4

(* None / SQL NULL for ids, timestamps and cursors (all real ones are >= 1) *)
NULL == 0

Shops == {"s1", "s2"}
Tasks == {"t1", "t2"}
SyncTypes == {"products", "customers", "orders"}

(* ---------------------------------------------------------------------- *)
(* Remote identifiers: "gid://shopify/<Type>/<n>" is the pair <<Type, n>>; *)
(* str.replace("gid://shopify/<Type>/", "") strips a matching prefix and   *)
(* leaves any other string as it is.  "" is the empty sequence.            *)
(* ---------------------------------------------------------------------- *)
Gid(rtype, n) == <<rtype, n>>

StripGid(g, rtype) == IF Len(g) = 2 /\ g[1] = rtype THEN <<g[2]>> ELSE g

(* Optional (nullable) remote values: JSON null is None, a value v is Some(v) *)
None == << >>
Some(v) == <<v>>
IsNone(o) == Len(o) = 0

(* str.lower() on the status words the remote API sends *)
Lower(str) ==
    CASE str = "ACTIVE" -> "active"
      [] str = "DRAFT" -> "draft"
      [] str = "ENABLED" -> "enabled"
      [] str = "DISABLED" -> "disabled"
      [] OTHER -> str

(* A decimal amount string: "12.50" is Amt(1250, 2), "0.2" is Amt(2, 1).      *)
Amt(m, e) == [m |-> m, e |-> e]

Pow10(n) == IF n = 0 THEN 1 ELSE IF n = 1 THEN 10 ELSE IF n = 2 THEN 100 ELSE 1000

(* Decimal(str(amount)) keeps the digits as written; a Numeric(p, 2) column  *)
(* stores the value at scale 2 (rounding half away from zero).              *)
ToNumeric2(d) ==
    IF d.e <= 2 THEN Amt(d.m * Pow10(2 - d.e), 2)
    ELSE Amt((d.m + 5 * Pow10(d.e - 3)) \div Pow10(d.e - 2), 2)

(* ---------------------------------------------------------------------- *)
(* Remote data.  A feed is the sequence of pages the API serves for one    *)
(* collection; page i is fetched with cursor i-1 (no cursor for page 1)    *)
(* and carries pageInfo {hasNextPage, endCursor}.                          *)
(* ---------------------------------------------------------------------- *)
VariantNode(n, price) == [id |-> Gid("ProductVariant", n), price |-> price]

ProductNode(n, title, status, vs) ==
    [id |-> Gid("Product", n), title |-> title, status |-> status, variants |-> vs]

Page(edges, hasNext, endCursor) ==
    [edges |-> edges, hasNextPage |-> hasNext, endCursor |-> endCursor]

EmptyPage == Page(<< >>, FALSE, NULL)

ProductFeeds ==
    << (* 1: two pages, 2 + 1 products *)
       << Page(<< ProductNode(1, "T1", Some("ACTIVE"), << VariantNode(1, Some(Amt(1000, 2))), VariantNode(2, Some(Amt(1250, 2))) >>),
                  ProductNode(2, "T1", Some("ACTIVE"), << VariantNode(3, Some(Amt(10, 2))) >>) >>, TRUE, 1),
          Page(<< ProductNode(3, "T1", Some("DRAFT"), << >>) >>, FALSE, 2) >>,
       (* 2: one page; product 1 renamed and one variant fewer, product 2 with a null status *)
       << Page(<< ProductNode(1, "T2", Some("DRAFT"), << VariantNode(1, Some(Amt(10, 2))) >>),
                  ProductNode(2, "T2", None, << VariantNode(3, Some(Amt(2, 1))) >>) >>, FALSE, 1) >>,
       (* 3: an empty first page that reports a next page; a variant with a null price *)
       << Page(<< >>, TRUE, 1),
          Page(<< ProductNode(1, "T1", Some("ACTIVE"), << VariantNode(1, Some(Amt(1000, 2))), VariantNode(2, None) >>) >>, FALSE, 2) >> >>

CustomerNode(n, email, spent, state) ==
    [id |-> Gid("Customer", n), email |-> email, total_spent |-> spent, state |-> state]

CustomerFeeds ==
    << (* 1: two pages, one customer each *)
       << Page(<< CustomerNode(1, "e1", Some(Amt(1250, 2)), Some("ENABLED")) >>, TRUE, 1),
          Page(<< CustomerNode(2, "e1", Some(Amt(0, 2)), Some("DISABLED")) >>, FALSE, 2) >>,
       (* 2: customer 1 changed, customer 2 with a null state *)
       << Page(<< CustomerNode(1, "e2", Some(Amt(2, 1)), Some("DISABLED")),
                  CustomerNode(2, "e2", Some(Amt(10, 2)), None) >>, FALSE, 1) >> >>

(* the customer embedded in an order: id, email, totalSpentV2 *)
EmbeddedCustomer(n, email, spent) ==
    [id |-> Some(Gid("Customer", n)), email |-> email, total_spent |-> spent]

ItemNode(n, title, product, price) ==
    [id |-> Gid("LineItem", n), title |-> title, product |-> product, price |-> price]

OrderNode(n, name, email, customer, total, items) ==
    [id |-> Gid("Order", n), name |-> name, email |-> email, customer |-> customer,
     total |-> total, items |-> items]

OrderFeeds ==
    << (* 1: order 1 of customer 1 with two items; order 2 of a customer that *)
       (*    the customers feed never serves, with an item of product 9       *)
       << Page(<< OrderNode(1, "#1", "e1", Some(EmbeddedCustomer(1, "e1", Some(Amt(1250, 2)))), Amt(2250, 2),
                            << ItemNode(1, "T1", Some(Gid("Product", 1)), Amt(1000, 2)),
                               ItemNode(2, "T1", Some(Gid("Product", 3)), Amt(1250, 2)) >>),
                  OrderNode(2, "#2", "e3", Some(EmbeddedCustomer(3, "e3", Some(Amt(10, 2)))), Amt(10, 2),
                            << ItemNode(3, "T9", Some(Gid("Product", 9)), Amt(10, 2)) >>) >>, FALSE, 1) >>,
       (* 2: order 2 now a guest order; order 1 changed (one item left); on   *)
       (*    page 2 an order whose second item has a null product             *)
       << Page(<< OrderNode(2, "#2", "e3", None, Amt(10, 2),
                            << ItemNode(3, "T9", Some(Gid("Product", 9)), Amt(10, 2)) >>),
                  OrderNode(1, "#1b", "e2", Some(EmbeddedCustomer(1, "e2", Some(Amt(2, 1)))), Amt(1000, 2),
                            << ItemNode(1, "T2", Some(Gid("Product", 1)), Amt(1000, 2)) >>) >>, TRUE, 1),
          Page(<< OrderNode(3, "#3", "e1", Some(EmbeddedCustomer(2, "e1", None)), Amt(30, 2),
                            << >>),
                  OrderNode(4, "#4", "e1", Some(EmbeddedCustomer(1, "e2", Some(Amt(2, 1)))), Amt(30, 2),
                            << ItemNode(4, "T2", Some(Gid("Product", 2)), Amt(10, 2)),
                               ItemNode(5, "T0", None, Amt(10, 2)),
                               ItemNode(6, "T1", Some(Gid("Product", 1)), Amt(10, 2)) >>) >>, FALSE, 2) >> >>

ShopData(n, name, host) == [id |-> Gid("Shop", n), name |-> name, primaryDomain |-> host]

ShopInfos ==
    << ShopData(1, "N1", Some("h1")),
       ShopData(1, "N2", None) >>

Catalogue ==
    [products |-> ProductFeeds, customers |-> CustomerFeeds, orders |-> OrderFeeds, shop |-> ShopInfos]

(* The page the API returns for a cursor (ShopifyAPIService.get_products:  *)
(* products(first, after)); past the end of the collection it is empty.    *)
PageAfter(feed, cursor) ==
    IF cursor + 1 \in DOMAIN feed THEN feed[cursor + 1] ELSE EmptyPage

(* ---------------------------------------------------------------------- *)
(* The store.  A world w is the record of the tables, the id sequences,    *)
(* the clock and the session's pending writes.                             *)
(* ---------------------------------------------------------------------- *)
TableNames == {"shops", "products", "variants", "customers", "orders", "line_items", "logs", "auths"}

EmptyTables == [t \in TableNames |-> {}]

ZeroSeq == [t \in TableNames |-> 0]

(* The element of a one-element set.  The({e(x) : x \in {v}}) is e with v  *)
(* computed once and named x.                                              *)
The(S) == CHOOSE x \in S : TRUE

(* Query(...).first(): the row the database returns first (lowest id) *)
First(rows) == CHOOSE r \in rows : \A q \in rows : r.id <= q.id

Last(rows) == CHOOSE r \in rows : \A q \in rows : r.id >= q.id

(* obj.attr = value on a loaded row; stamp is the value assigned to        *)
(* updated_at, or NULL when the code did not get to assign it              *)
UpdOp(tbl, id, fields, stamp) == [op |-> "upd", tbl |-> tbl, id |-> id, fields |-> fields, stamp |-> stamp]

(* db.add(obj) *)
InsOp(tbl, row) == [op |-> "ins", tbl |-> tbl, row |-> row]

Merge(row, fields) == [f \in DOMAIN row |-> IF f \in DOMAIN fields THEN fields[f] ELSE row[f]]

(* INSERT: id from the sequence, created_at = server_default now(),        *)
(* updated_at has no default and stays NULL                                *)
ApplyIns(w, o) ==
    LET id == w.seq[o.tbl] + 1
        row == [id |-> id, created_at |-> w.clock, updated_at |-> NULL] @@ o.row
    IN [w EXCEPT !.tbl[o.tbl] = @ \cup {row}, !.seq[o.tbl] = id]

ApplyUpdDropping(w, o) ==
    [w EXCEPT !.tbl[o.tbl] = {r \in @ : r.id # o.id \/ o.tbl \notin {"customers", "shops"}}]

(* UPDATE: emitted only for a net change; updated_at is the assigned value *)
(* or, when none was assigned, onupdate now()                              *)
ApplyUpd(w, o) ==
    LET hit == {r \in w.tbl[o.tbl] : r.id = o.id}
        old == First(hit)
        new == Merge(old, o.fields)
    IN IF hit = {} \/ (o.stamp = NULL /\ new = old) THEN w
       ELSE [w EXCEPT !.tbl[o.tbl] =
                (@ \ hit) \cup {[new EXCEPT !.updated_at = IF o.stamp = NULL THEN w.clock ELSE o.stamp]}]

RECURSIVE Flush(_, _)
Flush(w, ops) ==
    IF ops = << >> THEN w
    ELSE Flush(IF Head(ops).op = "ins" THEN ApplyIns(w, Head(ops)) ELSE ApplyUpd(w, Head(ops)),
               Tail(ops))

(* db.commit(): flush the pending writes; time has moved on when the next  *)
(* write is made                                                           *)
Commit(w) ==
    The({[f EXCEPT !.pend = << >>, !.clock = IF f.tbl = w.tbl THEN @ ELSE @ + 1] :
            f \in {Flush(w, w.pend)}})

Pend(w, o) == [w EXCEPT !.pend = Append(@, o)]

(* Result of a call that may raise: the world it leaves and whether it returned *)
Ret(w) == [w |-> w, ok |-> TRUE]
Raise(w) == [w |-> w, ok |-> FALSE]

(* ---------------------------------------------------------------------- *)
(* Products and variants                                                   *)
(* ---------------------------------------------------------------------- *)
FindProductUnstripped(w, shop, pid) ==
    {r \in w.tbl["products"] : r.shop_domain = shop /\ r.shopify_product_id = <<"Product">> \o pid}

FindProductAnyShop(w, shop, pid) ==
    {r \in w.tbl["products"] : r.shopify_product_id = pid}

(* a lookup answered from before the other run wrote *)
FindProductStale(w, shop, pid) == {}

(* the product of a shop with an external id *)
FindProduct(w, shop, pid) ==
    {r \in w.tbl["products"] : r.shop_domain = shop /\ r.shopify_product_id = pid}

FindVariant(w, product_id, vid) ==
    {r \in w.tbl["variants"] : r.product_id = product_id /\ r.shopify_variant_id = vid}

(* variants written for a product that has no local id yet *)
RECURSIVE SyncProductVariantsUnflushed(_, _, _)
SyncProductVariantsUnflushed(w, product, vs) ==
    IF vs = << >> THEN Ret(Commit(w))
    ELSE IF IsNone(Head(vs).price) THEN Raise(w)
    ELSE SyncProductVariantsUnflushed(
           Pend(w, InsOp("variants",
                         [product_id |-> NULL,
                          shop_domain |-> product.shop_domain,
                          shopify_variant_id |-> StripGid(Head(vs).id, "ProductVariant"),
                          shopify_product_id |-> product.shopify_product_id,
                          price |-> ToNumeric2(Head(vs).price[1])])),
           product, Tail(vs))

(* _sync_product_variants: the loop adds or updates one variant per edge;  *)
(* Decimal(str(None)) raises and leaves the earlier variants pending; the  *)
(* commit follows the loop                                                 *)
RECURSIVE SyncProductVariants(_, _, _)
SyncProductVariants(w, product, vs) ==
    IF vs = << >> THEN Ret(Commit(w))
    ELSE LET v == Head(vs)
             vid == StripGid(v.id, "ProductVariant")
             hit == FindVariant(w, product.id, vid)
         IN IF IsNone(v.price) THEN Raise(w)
            ELSE IF hit # {}
              THEN SyncProductVariants(
                     Pend(w, UpdOp("variants", First(hit).id,
                                   [price |-> ToNumeric2(v.price[1])], w.clock)),
                     product, Tail(vs))
              ELSE SyncProductVariants(
                     Pend(w, InsOp("variants",
                                   [product_id |-> product.id,
                                    shop_domain |-> product.shop_domain,
                                    shopify_variant_id |-> vid,
                                    shopify_product_id |-> product.shopify_product_id,
                                    price |-> ToNumeric2(v.price[1])])),
                     product, Tail(vs))

(* _sync_single_product: look the product up by (shop_domain, external id), *)
(* overwrite it or add it, commit, then sync its variants.  A null status  *)
(* raises at status.lower(): on the update path title is already assigned, *)
(* on the create path nothing has been added.                              *)
SyncSingleProduct(w, shop, node) ==
    LET pid == StripGid(node.id, "Product")
        hit == FindProduct(w, shop, pid)
    IN IF hit # {}
       THEN IF IsNone(node.status)
            THEN Raise(Pend(w, UpdOp("products", First(hit).id, [title |-> node.title], NULL)))
            ELSE The({SyncProductVariants(w1, First(FindProduct(w1, shop, pid)), node.variants) :
                        w1 \in {Commit(Pend(w, UpdOp("products", First(hit).id,
                                   [title |-> node.title, status |-> Lower(node.status[1])],
                                   w.clock)))}})
       ELSE IF IsNone(node.status)
            THEN Raise(w)
            ELSE The({SyncProductVariants(w1, Last(w1.tbl["products"]), node.variants) :
                        w1 \in {Commit(Pend(w, InsOp("products",
                                   [shop_domain |-> shop, shopify_product_id |-> pid,
                                    title |-> node.title, status |-> Lower(node.status[1])])))}})

(* ---------------------------------------------------------------------- *)
(* Customers                                                               *)
(* ---------------------------------------------------------------------- *)
FindCustomer(w, shop, cid) ==
    {r \in w.tbl["customers"] : r.shop_domain = shop /\ r.shopify_customer_id = cid}

(* _sync_single_customer.  A null totalSpentV2 raises before any write; a   *)
(* null state raises at state.lower(), after email and total_spent were    *)
(* assigned on the update path.                                            *)
SyncSingleCustomer(w, shop, node) ==
    LET cid == StripGid(node.id, "Customer")
        hit == FindCustomer(w, shop, cid)
    IN IF IsNone(node.total_spent) THEN Raise(w)
       ELSE IF hit # {}
       THEN IF IsNone(node.state)
            THEN Raise(Pend(w, UpdOp("customers", First(hit).id,
                        [email |-> node.email, total_spent |-> ToNumeric2(node.total_spent[1])], NULL)))
            ELSE Ret(Commit(Pend(w, UpdOp("customers", First(hit).id,
                        [email |-> node.email, total_spent |-> ToNumeric2(node.total_spent[1]),
                         state |-> Some(Lower(node.state[1]))], w.clock))))
       ELSE IF IsNone(node.state)
            THEN Raise(w)
            ELSE Ret(Commit(Pend(w, InsOp("customers",
                        [shop_domain |-> shop, shopify_customer_id |-> cid,
                         email |-> node.email, total_spent |-> ToNumeric2(node.total_spent[1]),
                         state |-> Some(Lower(node.state[1]))]))))

(* _sync_order_customer: upsert the customer embedded in an order and      *)
(* return its local id (res).  The embedded record carries no state.       *)
SyncOrderCustomer(w, shop, cnode) ==
    IF IsNone(cnode.id) THEN [w |-> w, ok |-> TRUE, res |-> NULL]
    ELSE LET cid == StripGid(cnode.id[1], "Customer")
             hit == FindCustomer(w, shop, cid)
         IN IF hit # {}
            THEN IF IsNone(cnode.total_spent)
                 THEN [w |-> Pend(w, UpdOp("customers", First(hit).id, [email |-> cnode.email], NULL)),
                       ok |-> FALSE, res |-> NULL]
                 ELSE [w |-> Commit(Pend(w, UpdOp("customers", First(hit).id,
                                [email |-> cnode.email,
                                 total_spent |-> ToNumeric2(cnode.total_spent[1])], w.clock))),
                       ok |-> TRUE, res |-> First(hit).id]
            ELSE IF IsNone(cnode.total_spent)
                 THEN [w |-> w, ok |-> FALSE, res |-> NULL]
                 ELSE The({[w |-> w1, ok |-> TRUE, res |-> Last(w1.tbl["customers"]).id] :
                             w1 \in {Commit(Pend(w, InsOp("customers",
                                        [shop_domain |-> shop, shopify_customer_id |-> cid,
                                         email |-> cnode.email,
                                         total_spent |-> ToNumeric2(cnode.total_spent[1]),
                                         state |-> None])))}})

(* ---------------------------------------------------------------------- *)
(* Orders and line items                                                   *)
(* ---------------------------------------------------------------------- *)
FindOrder(w, shop, oid) ==
    {r \in w.tbl["orders"] : r.shop_domain = shop /\ r.shopify_order_id = oid}

ItemsOf(w, order_id) == {r \in w.tbl["line_items"] : r.order_id = order_id}

ResolveProductByGid(w, shop, pid) ==
    IF FindProduct(w, shop, <<"Product">> \o pid) # {}
    THEN First(FindProduct(w, shop, <<"Product">> \o pid)).id ELSE NULL

(* the product lookup of _sync_order_line_items: local id or None *)
ResolveProduct(w, shop, pid) ==
    IF FindProduct(w, shop, pid) # {} THEN First(FindProduct(w, shop, pid)).id ELSE NULL

(* the loop of _sync_order_line_items: a null product raises at            *)
(* item_data.get("product", {}).get("id") and leaves the earlier items     *)
(* pending; the commit follows the loop                                    *)
RECURSIVE AddLineItems(_, _, _)
AddLineItems(w, order, items) ==
    IF items = << >> THEN Ret(Commit(w))
    ELSE LET it == Head(items)
         IN IF IsNone(it.product) THEN Raise(w)
            ELSE AddLineItems(
                   Pend(w, InsOp("line_items",
                         [order_id |-> order.id,
                          product_id |-> ResolveProduct(w, order.shop_domain, StripGid(it.product[1], "Product")),
                          shop_domain |-> order.shop_domain,
                          shopify_line_item_id |-> StripGid(it.id, "LineItem"),
                          shopify_order_id |-> order.shopify_order_id,
                          shopify_product_id |-> StripGid(it.product[1], "Product"),
                          title |-> it.title,
                          price |-> ToNumeric2(it.price)])),
                   order, Tail(items))

SyncOrderLineItemsAppend(w, order, items) == AddLineItems(w, order, items)

SyncOrderLineItemsMerge(w, order, items) ==
    LET Unseen(it) == \A r \in ItemsOf(w, order.id) :
                          r.shopify_line_item_id # StripGid(it.id, "LineItem")
    IN AddLineItems(w, order, SelectSeq(items, Unseen))

(* _sync_order_line_items: delete the order's items, commit, insert anew *)
SyncOrderLineItems(w, order, items) ==
    AddLineItems(Commit([w EXCEPT !.tbl["line_items"] = @ \ ItemsOf(w, order.id)]), order, items)

(* order_data.get("customer", {}).get("id", "").replace(...) raises when   *)
(* the customer, or its id, is null                                        *)
NoCustomerId(node) == IsNone(node.customer) \/ IsNone(node.customer[1].id)

(* _sync_single_order after the customer step.  A null customer raises at  *)
(* order_data.get("customer", {}).get("id", ""): on the update path        *)
(* customer_id is already assigned.  order_number and name are written     *)
(* only when the order is created.                                         *)
UpsertOrder(w, shop, node, customer_id) ==
    LET oid == StripGid(node.id, "Order")
        hit == FindOrder(w, shop, oid)
    IN IF hit # {}
       THEN IF NoCustomerId(node)
            THEN Raise(Pend(w, UpdOp("orders", First(hit).id, [customer_id |-> customer_id], NULL)))
            ELSE The({SyncOrderLineItems(w1, First(FindOrder(w1, shop, oid)), node.items) :
                        w1 \in {Commit(Pend(w, UpdOp("orders", First(hit).id,
                                   [customer_id |-> customer_id,
                                    shopify_customer_id |-> StripGid(node.customer[1].id[1], "Customer"),
                                    email |-> node.email,
                                    total_price |-> ToNumeric2(node.total)], w.clock)))}})
       ELSE IF NoCustomerId(node)
            THEN Raise(w)
            ELSE The({SyncOrderLineItems(w1, Last(w1.tbl["orders"]), node.items) :
                        w1 \in {Commit(Pend(w, InsOp("orders",
                                   [shop_domain |-> shop,
                                    customer_id |-> customer_id,
                                    shopify_order_id |-> oid,
                                    shopify_customer_id |-> StripGid(node.customer[1].id[1], "Customer"),
                                    name |-> node.name,
                                    email |-> node.email,
                                    total_price |-> ToNumeric2(node.total)])))}})

(* _sync_single_order: the embedded customer first, when there is one *)
SyncSingleOrder(w, shop, node) ==
    IF IsNone(node.customer)
    THEN UpsertOrder(w, shop, node, NULL)
    ELSE The({IF c.ok THEN UpsertOrder(c.w, shop, node, c.res) ELSE Raise(c.w) :
                c \in {SyncOrderCustomer(w, shop, node.customer[1])}})

(* ---------------------------------------------------------------------- *)
(* Shop profile                                                            *)
(* ---------------------------------------------------------------------- *)
FindShop(w, shop) == {r \in w.tbl["shops"] : r.shop_domain = shop}

(* the upsert of sync_shop_info; a null primaryDomain raises at            *)
(* shop_data.get("primaryDomain", {}).get("host"), after name was assigned *)
(* on the update path.  shopify_shop_id is written only on creation.       *)
UpsertShop(w, shop, data) ==
    LET hit == FindShop(w, shop)
    IN IF hit # {}
       THEN IF IsNone(data.primaryDomain)
            THEN Raise(Pend(w, UpdOp("shops", First(hit).id, [name |-> data.name], NULL)))
            ELSE Ret(Commit(Pend(w, UpdOp("shops", First(hit).id,
                        [name |-> data.name, domain |-> data.primaryDomain[1]], w.clock))))
       ELSE IF IsNone(data.primaryDomain)
            THEN Raise(w)
            ELSE Ret(Commit(Pend(w, InsOp("shops",
                        [shop_domain |-> shop, shopify_shop_id |-> StripGid(data.id, "Shop"),
                         name |-> data.name, domain |-> data.primaryDomain[1]]))))

(* ---------------------------------------------------------------------- *)
(* Tokens (ShopifyAuthService)                                             *)
(* ---------------------------------------------------------------------- *)
GetAuthDataAnyRow(w, shop) == {r \in w.tbl["auths"] : r.shop_domain = shop}

(* get_auth_data: the row of the shop with is_active == True, or None *)
GetAuthData(w, shop) == {r \in w.tbl["auths"] : r.shop_domain = shop /\ r.is_active}

(* a save that never looks for the record of the shop *)
SaveAuthDataAlwaysNew(w, shop, token) ==
    Commit(Pend(w, InsOp("auths",
                         [shop_domain |-> shop, access_token |-> token, is_active |-> TRUE])))

SaveAuthData(w, shop, token) ==
    LET hit == {r \in w.tbl["auths"] : r.shop_domain = shop}
    IN IF hit # {}
       THEN Commit(Pend(w, UpdOp("auths", First(hit).id,
                                 [access_token |-> token, is_active |-> TRUE], NULL)))
       ELSE Commit(Pend(w, InsOp("auths",
                                 [shop_domain |-> shop, access_token |-> token, is_active |-> TRUE])))

(* a revoke that finds nothing to do *)
RevokeAuthDataNoop(w, shop) == w

RevokeAuthData(w, shop) ==
    IF GetAuthData(w, shop) # {}
    THEN Commit(Pend(w, UpdOp("auths", First(GetAuthData(w, shop)).id, [is_active |-> FALSE], NULL)))
    ELSE w

(* what revoke_auth returns *)
RevokeAuthReturn(w, shop) == GetAuthData(w, shop) # {}

(* ---------------------------------------------------------------------- *)
(* Sync runs                                                               *)
(* ---------------------------------------------------------------------- *)
ZeroStats == [processed |-> 0, created |-> 0, updated |-> 0, failed |-> 0]

(* what the run has met so far (not program state): records seen, upserts  *)
(* that returned, among those the ones whose key had no row before, and    *)
(* the remote ids of the records whose upsert raised                       *)
ZeroAcc == [stats |-> ZeroStats, seen |-> 0, okc |-> 0, fresh |-> 0, bad |-> {}]

(* per run (not program state): fetch calls issued, pages returned, the    *)
(* pageInfo of the last one, whether a fetch raised or came back without   *)
(* the collection, the records met, the feed the remote served when the    *)
(* run began and whether it served that feed all along                     *)
ZeroGhost == [fetches |-> 0, pages |-> 0, empties |-> 0, last_end |-> NULL, last_more |-> TRUE,
              raised |-> FALSE, malformed |-> FALSE, seen |-> 0, okc |-> 0, fresh |-> 0,
              bad |-> {}, feed |-> 0, stable |-> TRUE]

NewSyncLogPending(shop, kind) ==
    [shop_domain |-> shop, sync_type |-> kind, status |-> "pending",
     records_processed |-> 0, records_created |-> 0,
     records_updated |-> 0, records_failed |-> 0,
     error_message |-> None, last_cursor |-> NULL]

(* ShopifySyncLog(shop_domain, sync_type, status="in_progress"): the       *)
(* counters default to 0, error_message and last_cursor to NULL            *)
NewSyncLog(shop, kind) ==
    [shop_domain |-> shop, sync_type |-> kind, status |-> "in_progress",
     records_processed |-> 0, records_created |-> 0,
     records_updated |-> 0, records_failed |-> 0,
     error_message |-> None, last_cursor |-> NULL]

CreateSyncLogTwice(w, shop, kind) ==
    The({[w1 EXCEPT !.hist = @ @@ (w1.seq["logs"] :> <<"in_progress">>),
                    !.g = @ @@ (w1.seq["logs"] :> [ZeroGhost EXCEPT !.feed = w.rem[shop][kind]])] :
            w1 \in {Commit(Pend(Pend(w, InsOp("logs", NewSyncLog(shop, kind))),
                                InsOp("logs", NewSyncLog(shop, kind))))}})

(* create_sync_log *)
CreateSyncLog(w, shop, kind) ==
    The({[w1 EXCEPT !.hist = @ @@ (w1.seq["logs"] :> <<"in_progress">>),
                    !.g = @ @@ (w1.seq["logs"] :> [ZeroGhost EXCEPT !.feed = w.rem[shop][kind]])] :
            w1 \in {Commit(Pend(w, InsOp("logs", NewSyncLog(shop, kind))))}})

(* update_sync_log: status, the keyword fields, commit *)
UpdateSyncLog(w, id, status, fields) ==
    [Commit(Pend(w, UpdOp("logs", id, fields @@ [status |-> status], w.clock)))
        EXCEPT !.hist[id] = Append(@, status)]

KindRow(w, shop, kind, node) ==
    CASE kind = "products" -> FindProduct(w, shop, StripGid(node.id, "Product"))
      [] kind = "customers" -> FindCustomer(w, shop, StripGid(node.id, "Customer"))
      [] kind = "orders" -> FindOrder(w, shop, StripGid(node.id, "Order"))

SyncSingle(w, shop, kind, node) ==
    CASE kind = "products" -> SyncSingleProduct(w, shop, node)
      [] kind = "customers" -> SyncSingleCustomer(w, shop, node)
      [] kind = "orders" -> SyncSingleOrder(w, shop, node)

ClassifyInverted(rows) ==
    IF rows = {} THEN "created"
    ELSE IF First(rows).created_at > First(rows).updated_at THEN "updated"
    ELSE "created"

(* "if existing and existing.created_at < existing.updated_at": updated,   *)
(* else created; comparing a datetime with None raises TypeError           *)
Classify(rows) ==
    IF rows = {} THEN "created"
    ELSE IF First(rows).updated_at = NULL THEN "raise"
    ELSE IF First(rows).created_at < First(rows).updated_at THEN "updated"
    ELSE "created"

Bump(stats, f) == [stats EXCEPT ![f] = @ + 1]

(* the counter the created/updated check increments; its TypeError lands  *)
(* in the except branch of the record                                      *)
Tally(c) == IF c = "raise" THEN "failed" ELSE c

ProcessEdgeSilent(w, shop, kind, node, acc) ==
    The({IF ~r.ok
         THEN [w |-> r.w,
               acc |-> [acc EXCEPT !.seen = @ + 1, !.bad = @ \cup {node.id}]]
         ELSE [w |-> r.w,
               acc |-> [acc EXCEPT
                          !.seen = @ + 1,
                          !.okc = @ + 1,
                          !.fresh = IF KindRow(w, shop, kind, node) = {} THEN @ + 1 ELSE @,
                          !.stats = Bump(Bump(@, "processed"),
                                         Tally(Classify(KindRow(r.w, shop, kind, node))))]] :
            r \in {SyncSingle(w, shop, kind, node)}})

(* one iteration of "for edge in data['edges']": the upsert, processed += 1, *)
(* the created/updated check; any exception is caught and counted failed   *)
ProcessEdge(w, shop, kind, node, acc) ==
    The({IF ~r.ok
         THEN [w |-> r.w,
               acc |-> [acc EXCEPT !.seen = @ + 1, !.bad = @ \cup {node.id},
                                   !.stats = Bump(@, "failed")]]
         ELSE [w |-> r.w,
               acc |-> [acc EXCEPT
                          !.seen = @ + 1,
                          !.okc = @ + 1,
                          !.fresh = IF KindRow(w, shop, kind, node) = {} THEN @ + 1 ELSE @,
                          !.stats = Bump(Bump(@, "processed"),
                                         Tally(Classify(KindRow(r.w, shop, kind, node))))]] :
            r \in {SyncSingle(w, shop, kind, node)}})

RECURSIVE ProcessEdges(_, _, _, _, _)
ProcessEdges(w, shop, kind, edges, acc) ==
    IF edges = << >> THEN [w |-> w, acc |-> acc]
    ELSE The({ProcessEdges(r.w, shop, kind, Tail(edges), r.acc) :
                r \in {ProcessEdge(w, shop, kind, Head(edges), acc)}})

NextKindCustomersFirst(kind) ==
    CASE kind = "shop" -> "customers"
      [] kind = "customers" -> "products"
      [] kind = "products" -> "orders"
      [] OTHER -> "none"

(* full_sync: the operation that follows kind *)
NextKind(kind) ==
    CASE kind = "shop" -> "products"
      [] kind = "products" -> "customers"
      [] kind = "customers" -> "orders"
      [] OTHER -> "none"

(* What the store holds apart from local ids of line items and the         *)
(* bookkeeping timestamps: the business columns of every row, and how many *)
(* line items there are                                                    *)
Business(tb) ==
    [products |-> {[shop_domain |-> r.shop_domain, shopify_product_id |-> r.shopify_product_id,
                    title |-> r.title, status |-> r.status] : r \in tb["products"]},
     variants |-> {[product_id |-> r.product_id, shop_domain |-> r.shop_domain,
                    shopify_variant_id |-> r.shopify_variant_id,
                    shopify_product_id |-> r.shopify_product_id, price |-> r.price] : r \in tb["variants"]},
     customers |-> {[shop_domain |-> r.shop_domain, shopify_customer_id |-> r.shopify_customer_id,
                     email |-> r.email, total_spent |-> r.total_spent, state |-> r.state] : r \in tb["customers"]},
     orders |-> {[shop_domain |-> r.shop_domain, shopify_order_id |-> r.shopify_order_id,
                  customer_id |-> r.customer_id, shopify_customer_id |-> r.shopify_customer_id,
                  name |-> r.name, email |-> r.email, total_price |-> r.total_price] : r \in tb["orders"]},
     line_items |-> {[order_id |-> r.order_id, product_id |-> r.product_id, shop_domain |-> r.shop_domain,
                      shopify_line_item_id |-> r.shopify_line_item_id,
                      shopify_order_id |-> r.shopify_order_id,
                      shopify_product_id |-> r.shopify_product_id,
                      title |-> r.title, price |-> r.price] : r \in tb["line_items"]},
     n_line_items |-> Cardinality(tb["line_items"])]

(* which operation ran, for which shop, against which remote data *)
NoSig == [shop |-> "none", op |-> "none", feeds |-> [k \in DOMAIN Catalogue |-> 0]]

(* the operation completed last and whether it was itself a repetition *)
NoLast == [sig |-> NoSig, rerun |-> FALSE]

(* A task: pc is where the coroutine stands ("idle", "shop_fetch",         *)
(* "page_fetch", or "done" within a step), kind the operation running,     *)
(* full whether full_sync called it, log the id of its run, acc the        *)
(* counters, cursor the pagination cursor, results what full_sync          *)
(* collects.  op, sig, rerun, snap and clean are history: the operation    *)
(* invoked, whether the one completed just before was the same one on the  *)
(* same remote data, the store when this one began, and whether every      *)
(* fetch of it returned data from that same remote data.                   *)
IdleTask ==
    [pc |-> "idle", shop |-> "none", kind |-> "none", full |-> FALSE, log |-> NULL,
     acc |-> ZeroAcc, cursor |-> NULL, results |-> << >>,
     sig |-> NoSig, rerun |-> FALSE, snap |-> Business(EmptyTables), clean |-> TRUE]

(* the locals of a task that has just been invoked *)
NewTask(w, shop, op) ==
    LET sig == [shop |-> shop, op |-> op, feeds |-> w.rem[shop]]
    IN [IdleTask EXCEPT !.shop = shop, !.full = (op = "full"), !.sig = sig,
                        !.rerun = (w.last.sig = sig), !.snap = Business(w.tbl)]

(* the fetch call is issued: the coroutine suspends on it *)
IssueFetch(w, id) == [w EXCEPT !.g[id].fetches = @ + 1]

(* sync_products / sync_customers / sync_orders up to the first await:     *)
(* create the run, look the token up; without a token the except branch    *)
(* records the error and the call returns                                  *)
BeginSync(w, st, kind) ==
    The({IF GetAuthData(w1, st.shop) = {}
         THEN [w |-> UpdateSyncLog(w1, w1.seq["logs"], "error",
                        [error_message |-> Some("No auth data found"),
                         records_processed |-> 0, records_failed |-> 0]),
               st |-> [st EXCEPT !.kind = kind, !.log = w1.seq["logs"], !.acc = ZeroAcc,
                                 !.cursor = NULL, !.pc = "done", !.clean = FALSE,
                                 !.results = @ @@ (kind :> ZeroStats)]]
         ELSE [w |-> IssueFetch(w1, w1.seq["logs"]),
               st |-> [st EXCEPT !.kind = kind, !.log = w1.seq["logs"], !.acc = ZeroAcc,
                                 !.cursor = NULL, !.pc = "page_fetch"]] :
            w1 \in {CreateSyncLog([w EXCEPT !.calls[kind] = @ + 1], st.shop, kind)}})

FinishSuccessThenProgress(w, st, acc) ==
    [w |-> UpdateSyncLog(
               UpdateSyncLog(w, st.log, "success",
                   [records_processed |-> acc.stats.processed,
                    records_created |-> acc.stats.created,
                    records_updated |-> acc.stats.updated,
                    records_failed |-> acc.stats.failed]),
               st.log, "in_progress", [records_processed |-> acc.stats.processed]),
     st |-> [st EXCEPT !.pc = "done", !.acc = acc, !.results = @ @@ (st.kind :> acc.stats)]]

(* the final update_sync_log(..., "success", ...) and return stats *)
FinishSuccess(w, st, acc) ==
    [w |-> UpdateSyncLog(w, st.log, "success",
               [records_processed |-> acc.stats.processed,
                records_created |-> acc.stats.created,
                records_updated |-> acc.stats.updated,
                records_failed |-> acc.stats.failed]),
     st |-> [st EXCEPT !.pc = "done", !.acc = acc, !.results = @ @@ (st.kind :> acc.stats)]]

FinishErrorRetry(w, st, msg) == [w |-> IssueFetch(w, st.log), st |-> st]

FinishErrorUnrecorded(w, st, msg) ==
    [w |-> w,
     st |-> [st EXCEPT !.pc = "done", !.results = @ @@ (st.kind :> st.acc.stats)]]

(* the outer except branch: update_sync_log(..., "error", ...) and return stats *)
FinishError(w, st, msg) ==
    [w |-> UpdateSyncLog(w, st.log, "error",
               [error_message |-> Some(msg),
                records_processed |-> st.acc.stats.processed,
                records_failed |-> st.acc.stats.failed]),
     st |-> [st EXCEPT !.pc = "done", !.results = @ @@ (st.kind :> st.acc.stats)]]

NoteRecords(w, id, acc) ==
    [w EXCEPT !.g[id].seen = acc.seen, !.g[id].okc = acc.okc, !.g[id].fresh = acc.fresh,
              !.g[id].bad = acc.bad]

HasNextPageUntilEmpty(page) == TRUE

(* has_next_page = page_info.get("hasNextPage", False) *)
HasNextPage(page) == page.hasNextPage

NextCursorKept(page) == page.endCursor

NextCursorNone(page) == NULL

(* cursor = page_info.get("endCursor") if has_next_page else None *)
NextCursor(page) == IF HasNextPage(page) THEN page.endCursor ELSE NULL

(* what the page that came back tells about the run (history) *)
NotePage(w, st, page) ==
    [w EXCEPT !.g[st.log].last_end = page.endCursor,
              !.g[st.log].last_more = page.hasNextPage,
              !.g[st.log].pages = @ + 1,
              !.g[st.log].empties = IF page.edges = << >> THEN @ + 1 ELSE @,
              !.g[st.log].stable = @ /\ w.rem[st.shop][st.kind] = w.g[st.log].feed]

(* after the records of a page: sync_products and sync_orders record the   *)
(* progress, sync_customers does not; then the next fetch or the end       *)
AfterEdges(r, st, page) ==
    The({IF HasNextPage(page)
         THEN [w |-> IssueFetch(w2, st.log),
               st |-> [st EXCEPT !.acc = r.acc, !.cursor = NextCursor(page)]]
         ELSE FinishSuccess(w2, st, r.acc) :
            w2 \in {IF st.kind = "customers"
                    THEN NoteRecords(r.w, st.log, r.acc)
                    ELSE UpdateSyncLog(NoteRecords(r.w, st.log, r.acc), st.log, "in_progress",
                             [records_processed |-> r.acc.stats.processed,
                              last_cursor |-> NextCursor(page)])}})

(* one turn of "while has_next_page" from the return of the fetch to the   *)
(* next await or to the end of the run                                     *)
OnPage(w, st, outcome) ==
    The({CASE outcome = "raise" ->
                FinishError([w EXCEPT !.g[st.log].raised = TRUE], st, "fetch failed")
           [] outcome = "malformed" ->
                FinishSuccess([w EXCEPT !.g[st.log].malformed = TRUE], st, st.acc)
           [] outcome = "page" /\ page.edges = << >> ->
                FinishSuccess(NotePage(w, st, page), st, st.acc)
           [] outcome = "page" /\ page.edges # << >> ->
                The({AfterEdges(r, st, page) :
                       r \in {ProcessEdges(NotePage(w, st, page), st.shop, st.kind,
                                           page.edges, st.acc)}}) :
            page \in {PageAfter(Catalogue[st.kind][w.rem[st.shop][st.kind]], st.cursor)}})

(* full_sync: when one operation has returned, the next one starts in the  *)
(* same stretch of code; a call that was not part of full_sync just ends,  *)
(* and its session goes away with it.  What the call returned stays in     *)
(* results until the caller invokes the next operation.                    *)
RECURSIVE Chain(_)
Chain(r) ==
    IF r.st.pc # "done" THEN r
    ELSE IF ~r.st.full \/ r.st.kind = "orders"
         THEN [w |-> [r.w EXCEPT !.pend = << >>,
                                 !.last = IF r.st.clean THEN [sig |-> r.st.sig, rerun |-> r.st.rerun]
                                         ELSE NoLast],
               st |-> [IdleTask EXCEPT !.results = r.st.results]]
         ELSE Chain(BeginSync(r.w, r.st, NextKind(r.st.kind)))

(* sync_shop_info up to its await *)
BeginShop(w, st) ==
    IF GetAuthData(w, st.shop) = {}
    THEN [w |-> [w EXCEPT !.calls["shop"] = @ + 1],
          st |-> [st EXCEPT !.kind = "shop", !.pc = "done", !.clean = FALSE]]
    ELSE [w |-> [w EXCEPT !.calls["shop"] = @ + 1],
          st |-> [st EXCEPT !.kind = "shop", !.pc = "shop_fetch"]]

(* a failed shop profile sync that ends the full sync *)
OnShopAborting(w, st, outcome) ==
    [w |-> IF outcome = "data"
           THEN UpsertShop(w, st.shop, Catalogue["shop"][w.rem[st.shop]["shop"]]).w
           ELSE w,
     st |-> [st EXCEPT !.pc = "done", !.full = (outcome = "data")]]

(* sync_shop_info from the return of get_shop_info: an empty reply returns *)
(* False, an exception anywhere returns False without a commit             *)
OnShop(w, st, outcome) ==
    [w |-> IF outcome = "data"
           THEN UpsertShop(w, st.shop, Catalogue["shop"][w.rem[st.shop]["shop"]]).w
           ELSE w,
     st |-> [st EXCEPT !.pc = "done"]]

(* ---------------------------------------------------------------------- *)
(* State                                                                   *)
(* ---------------------------------------------------------------------- *)
VARIABLES
    tbl,      \* the tables: name -> set of rows
    seq,      \* the id sequence of each table
    clock,    \* the time, as the database and datetime.utcnow() see it
    task,     \* per task: where its coroutine stands and its locals
    pend,     \* per task: the uncommitted writes of its session
    remote,   \* per shop: which entry of the catalogue the remote API serves
    hist,     \* per run: the statuses written to it, in order (history)
    ghost,    \* per run: fetch calls and records met (history)
    last,     \* the operation completed last, if all its fetches returned data (history)
    calls,    \* per operation: how many times it has been invoked (history)
    call,     \* the application of a parsing helper on its own: argument and result
    oauth,    \* app.main: auth_states, access_tokens, the callbacks in flight
    ops       \* events of the environment so far: operations invoked, grants and
              \* revocations, remote changes, fetches that failed or lacked data

vars == <<tbl, seq, clock, task, pend, remote, hist, ghost, last, calls, call, oauth, ops>>

World(t) ==
    [tbl |-> tbl, seq |-> seq, clock |-> clock, pend |-> pend[t], rem |-> remote,
     hist |-> hist, g |-> ghost, last |-> last, calls |-> calls]

(* a request's own session: nothing pending *)
FreshWorld == [World("t1") EXCEPT !.pend = << >>]

(* the state after the step of task t that ends in world w and locals st *)
Install(t, r) ==
    /\ tbl' = r.w.tbl
    /\ seq' = r.w.seq
    /\ clock' = r.w.clock
    /\ hist' = r.w.hist
    /\ ghost' = r.w.g
    /\ last' = r.w.last
    /\ calls' = r.w.calls
    /\ UNCHANGED <<call, oauth>>
    /\ pend' = [pend EXCEPT ![t] = r.w.pend]
    /\ task' = [task EXCEPT ![t] = r.st]

(* no helper is being applied on its own *)
NoCall == [fn |-> "none", arg |-> << >>, done |-> TRUE, out |-> << >>]

(* app.main at start-up: auth_states = {} and access_tokens = {}.  states   *)
(* is auth_states as the set of its (state, shop) entries, tokens is        *)
(* access_tokens, next the state value token_urlsafe yields next, flight    *)
(* the callbacks waiting for the token exchange.  issued, log and stored    *)
(* are history: the states handed out, the callbacks accepted and rejected  *)
(* in order, and the callbacks for which a token was stored.                *)
NoOAuth ==
    [states |-> {}, tokens |-> [s \in Shops |-> "none"], next |-> 1, flight |-> {},
     issued |-> {}, log |-> << >>, stored |-> {}]

(* everything but the helper call, as after construction *)
Untouched ==
    /\ oauth = NoOAuth
    /\ tbl = EmptyTables
    /\ seq = ZeroSeq
    /\ clock = 1
    /\ task = [t \in Tasks |-> IdleTask]
    /\ pend = [t \in Tasks |-> << >>]
    /\ remote = [s \in Shops |-> [k \in DOMAIN Catalogue |-> 1]]
    /\ hist = << >>
    /\ ghost = << >>
    /\ last = NoLast
    /\ calls = [k \in DOMAIN Catalogue |-> 0]
    /\ ops = 0

Init ==
    /\ Untouched
    /\ call = NoCall

(* ---------------------------------------------------------------------- *)
(* Actions                                                                 *)
(* ---------------------------------------------------------------------- *)
(* a caller invokes sync_products, sync_customers or sync_orders *)
StartSync(t, shop, kind) ==
    /\ task[t].pc = "idle"
    /\ ops < MaxOps
    /\ ops' = ops + 1
    /\ Install(t, Chain(BeginSync(World(t), NewTask(World(t), shop, kind), kind)))
    /\ UNCHANGED remote

(* a caller invokes sync_shop_info *)
StartShopInfo(t, shop) ==
    /\ task[t].pc = "idle"
    /\ ops < MaxOps
    /\ ops' = ops + 1
    /\ Install(t, Chain(BeginShop(World(t), NewTask(World(t), shop, "shop"))))
    /\ UNCHANGED remote

(* a caller invokes full_sync *)
StartFullSync(t, shop) ==
    /\ task[t].pc = "idle"
    /\ ops < MaxOps
    /\ ops' = ops + 1
    /\ Install(t, Chain(BeginShop(World(t), NewTask(World(t), shop, "full"))))
    /\ UNCHANGED remote

(* whether the reply is data of the remote data the operation began with *)
StillClean(t, good) ==
    [task[t] EXCEPT !.clean = @ /\ good /\ remote[task[t].shop] = task[t].sig.feeds]

(* get_shop_info returns (data, or an empty reply) or raises *)
ShopResponse(t, outcome) ==
    /\ task[t].pc = "shop_fetch"
    /\ outcome # "data" => ops < MaxOps
    /\ ops' = IF outcome # "data" THEN ops + 1 ELSE ops
    /\ Install(t, Chain(OnShop(World(t), StillClean(t, outcome = "data"), outcome)))
    /\ UNCHANGED remote

(* get_products / get_customers / get_orders returns a page, returns a     *)
(* reply without the collection, or raises                                 *)
PageResponse(t, outcome) ==
    /\ task[t].pc = "page_fetch"
    /\ outcome # "page" => ops < MaxOps
    /\ ops' = IF outcome # "page" THEN ops + 1 ELSE ops
    /\ Install(t, Chain(OnPage(World(t), StillClean(t, outcome = "page"), outcome)))
    /\ UNCHANGED remote

(* the OAuth callback stores a token: save_auth_data, in its own session *)
SaveAuth(shop, token) ==
    /\ ops < MaxOps
    /\ ops' = ops + 1
    /\ \E w \in {SaveAuthData(FreshWorld, shop, token)} :
          /\ tbl' = w.tbl
          /\ seq' = w.seq
          /\ clock' = w.clock
    /\ UNCHANGED <<task, pend, remote, hist, ghost, last, calls, call, oauth>>

(* revoke_auth, in its own session *)
RevokeAuth(shop) ==
    /\ ops < MaxOps
    /\ ops' = ops + 1
    /\ \E w \in {RevokeAuthData(FreshWorld, shop)} :
          /\ tbl' = w.tbl
          /\ seq' = w.seq
          /\ clock' = w.clock
    /\ UNCHANGED <<task, pend, remote, hist, ghost, last, calls, call, oauth>>

(* the merchant's data changes on the remote side *)
RemoteChange(shop, kind, i) ==
    /\ ops < MaxOps
    /\ remote[shop][kind] # i
    /\ ops' = ops + 1
    /\ remote' = [remote EXCEPT ![shop][kind] = i]
    /\ UNCHANGED <<tbl, seq, clock, task, pend, hist, ghost, last, calls, call, oauth>>

Outcomes == {"page", "malformed", "raise"}
ShopOutcomes == {"data", "empty", "raise"}
Tokens == {"tokA"}

(* one caller at a time, one shop *)
Next ==
    \/ \E kind \in SyncTypes : StartSync("t1", "s1", kind)
    \/ StartShopInfo("t1", "s1")
    \/ StartFullSync("t1", "s1")
    \/ \E o \in ShopOutcomes : ShopResponse("t1", o)
    \/ \E o \in Outcomes : PageResponse("t1", o)
    \/ \E tok \in Tokens : SaveAuth("s1", tok)
    \/ RevokeAuth("s1")
    \/ \E kind \in DOMAIN Catalogue : \E i \in DOMAIN Catalogue[kind] : RemoteChange("s1", kind, i)

Spec == Init /\ [][Next]_vars

(* Two shops.  Both have installed the app (save_auth_data was called for  *)
(* each); entity syncs are invoked for either shop and every fetch returns *)
(* a page.  Both shops serve the same catalogue, so that their records     *)
(* carry the same external ids.                                            *)
TwoTokens ==
    SaveAuthData(
        SaveAuthData([tbl |-> EmptyTables, seq |-> ZeroSeq, clock |-> 1, pend |-> << >>],
                     "s1", "tokA"),
        "s2", "tokA")

InitShops ==
    /\ \E w \in {TwoTokens} : tbl = w.tbl /\ seq = w.seq /\ clock = w.clock
    /\ call = NoCall
    /\ oauth = NoOAuth
    /\ task = [t \in Tasks |-> IdleTask]
    /\ pend = [t \in Tasks |-> << >>]
    /\ remote = [s \in Shops |-> [k \in DOMAIN Catalogue |-> 1]]
    /\ hist = << >>
    /\ ghost = << >>
    /\ last = NoLast
    /\ calls = [k \in DOMAIN Catalogue |-> 0]
    /\ ops = 0

NextShops ==
    \/ \E shop \in Shops : \E kind \in {"products", "orders"} : StartSync("t1", shop, kind)
    \/ PageResponse("t1", "page")

SpecShops == InitShops /\ [][NextShops]_vars

(* Two callers.  Each runs product and order syncs for the same shop on the *)
(* one event loop: a run gives way to the other only while one of its       *)
(* fetches is out, and all it does on a reply happens in one stretch.       *)
NextRace ==
    \/ \E t \in Tasks : \E kind \in {"products", "orders"} : StartSync(t, "s1", kind)
    \/ \E t \in Tasks : PageResponse(t, "page")

SpecRace == InitShops /\ [][NextRace]_vars

(* An order synced while all its products were there, one of which the     *)
(* remote side has removed since.  Order 4 as it was served before: its    *)
(* second line item still names a product.  The store is what a sync of    *)
(* that record left; the remote side now serves the orders feed in which   *)
(* the product of that line item is null.                                  *)
Order4Whole ==
    [OrderFeeds[2][2].edges[2] EXCEPT !.items[2].product = Some(Gid("Product", 2))]

StoreWithOrder == SyncSingleOrder(TwoTokens, "s1", Order4Whole).w

InitItems ==
    /\ \E w \in {StoreWithOrder} : tbl = w.tbl /\ seq = w.seq /\ clock = w.clock
    /\ call = NoCall
    /\ oauth = NoOAuth
    /\ task = [t \in Tasks |-> IdleTask]
    /\ pend = [t \in Tasks |-> << >>]
    /\ remote = [s \in Shops |-> [k \in DOMAIN Catalogue |-> IF k = "orders" THEN 2 ELSE 1]]
    /\ hist = << >>
    /\ ghost = << >>
    /\ last = NoLast
    /\ calls = [k \in DOMAIN Catalogue |-> 0]
    /\ ops = 0

NextItems ==
    \/ \E kind \in {"products", "orders"} : StartSync("t1", "s1", kind)
    \/ \E o \in Outcomes : PageResponse("t1", o)
    \/ \E i \in DOMAIN OrderFeeds : RemoteChange("s1", "orders", i)

SpecItems == InitItems /\ [][NextItems]_vars

(* ---------------------------------------------------------------------- *)
(* The status query (GET /sync/{shop_domain}/status): it reads the store   *)
(* and changes nothing                                                     *)
(* ---------------------------------------------------------------------- *)
OldestByCreatedAt(rows) == CHOOSE r \in rows : \A q \in rows : r.created_at <= q.created_at

(* order_by(desc(created_at)).first() *)
LatestByCreatedAt(rows) == CHOOSE r \in rows : \A q \in rows : r.created_at >= q.created_at

(* get_sync_status: per sync type the latest run of the shop, or never_synced *)
GetSyncStatus(shop) ==
    [k \in SyncTypes |->
        IF {l \in tbl["logs"] : l.shop_domain = shop /\ l.sync_type = k} = {}
        THEN [sync_type |-> k, status |-> "never_synced", records_processed |-> 0]
        ELSE [sync_type |-> k,
              status |-> LatestByCreatedAt({l \in tbl["logs"] :
                             l.shop_domain = shop /\ l.sync_type = k}).status,
              records_processed |-> LatestByCreatedAt({l \in tbl["logs"] :
                             l.shop_domain = shop /\ l.sync_type = k}).records_processed]]

(* a coroutine parked on an await of the remote API *)
Waiting == task["t1"].pc \in {"page_fetch", "shop_fetch"}

(* Every fetch eventually returns or raises: no coroutine stays parked on   *)
(* its await for ever.  The responses are enabled exactly when Waiting, so  *)
(* this is weak fairness of the responses, stated on their enabling         *)
(* condition.                                                               *)
Fairness == []<>(~Waiting)

SpecLive == Spec /\ Fairness

(* ---------------------------------------------------------------------- *)
(* Installing and uninstalling on their own: either shop saves one of two   *)
(* tokens or revokes, in any order.                                         *)
(* ---------------------------------------------------------------------- *)
AuthTokens == {"tokA", "tokB"}

NextAuth ==
    \/ \E shop \in Shops : \E tok \in AuthTokens : SaveAuth(shop, tok)
    \/ \E shop \in Shops : RevokeAuth(shop)

SpecAuth == Init /\ [][NextAuth]_vars

(* ---------------------------------------------------------------------- *)
(* The in-memory OAuth flow of app.main                                    *)
(* ---------------------------------------------------------------------- *)

(* a state that stays in auth_states after it was used *)
KeepState(states, s) == states

(* auth_states.pop(state, None) *)
PopState(states, s) == {e \in states : e.state # s}

(* POST /api/v1/auth/authorize: a fresh state is stored for the shop and    *)
(* handed out                                                               *)
InitiateAuth(shop) ==
    /\ ops < MaxOps
    /\ ops' = ops + 1
    /\ oauth' = [oauth EXCEPT
                    !.states = PopState(@, oauth.next)
                                  \cup {[state |-> oauth.next, shop |-> shop]},
                    !.issued = @ \cup {[state |-> oauth.next, shop |-> shop]},
                    !.next = @ + 1]
    /\ UNCHANGED <<tbl, seq, clock, task, pend, remote, hist, ghost, last, calls, call>>

(* GET /api/v1/auth/callback up to the token exchange.  Without code, shop  *)
(* or state it answers 400 at once; a state that is not stored, or stored   *)
(* for another shop, is dropped and answered 400; otherwise the state is    *)
(* dropped and the exchange request goes out.                               *)
AuthCallback(complete, state, shop) ==
    /\ ops < MaxOps
    /\ ops' = ops + 1
    /\ oauth' =
          IF ~complete
          THEN [oauth EXCEPT !.log = Append(@, [kind |-> "rejected", state |-> NULL, shop |-> shop])]
          ELSE IF [state |-> state, shop |-> shop] \notin oauth.states
          THEN [oauth EXCEPT !.states = PopState(@, state),
                             !.log = Append(@, [kind |-> "rejected", state |-> state, shop |-> shop])]
          ELSE [oauth EXCEPT !.states = PopState(@, state),
                             !.flight = @ \cup {[state |-> state, shop |-> shop]},
                             !.log = Append(@, [kind |-> "accepted", state |-> state, shop |-> shop])]
    /\ UNCHANGED <<tbl, seq, clock, task, pend, remote, hist, ghost, last, calls, call>>

(* exchange_code_for_token returns: with a token it is stored for the shop  *)
(* of the callback; without one, or on an exception, nothing is stored      *)
ExchangeReturns(e, tok) ==
    /\ e \in oauth.flight
    /\ oauth' = IF tok = "none"
                THEN [oauth EXCEPT !.flight = @ \ {e}]
                ELSE [oauth EXCEPT !.flight = @ \ {e},
                                   !.tokens[e.shop] = tok,
                                   !.stored = @ \cup {e}]
    /\ UNCHANGED <<tbl, seq, clock, task, pend, remote, hist, ghost, last, calls, call, ops>>

(* DELETE /api/v1/shops/{shop_domain}: 404 for a shop without a token *)
UninstallShop(shop) ==
    /\ ops < MaxOps
    /\ ops' = ops + 1
    /\ oauth' = IF oauth.tokens[shop] = "none" THEN oauth
                ELSE [oauth EXCEPT !.tokens[shop] = "none"]
    /\ UNCHANGED <<tbl, seq, clock, task, pend, remote, hist, ghost, last, calls, call>>

NextOAuth ==
    \/ \E shop \in Shops : InitiateAuth(shop)
    \/ \E complete \in BOOLEAN : \E state \in 1..MaxOps : \E shop \in Shops :
          AuthCallback(complete, state, shop)
    \/ \E state \in 1..MaxOps : \E shop \in Shops : \E tok \in AuthTokens \cup {"none"} :
          ExchangeReturns([state |-> state, shop |-> shop], tok)
    \/ \E shop \in Shops : UninstallShop(shop)

SpecOAuth == Init /\ [][NextOAuth]_vars

(* ---------------------------------------------------------------------- *)
(* _parse_datetime on its own                                              *)
(* ---------------------------------------------------------------------- *)

(* longest timestamp string tried, in tokens *)
MaxLen == 3

(* A timestamp string is a sequence of tokens: "D" a date (2024-01-15, two *)
(* hyphens), "T" a time of day (T10:00:00), "Z" the letter Z, "+" and "-"  *)
(* a numeric offset (+00:00, -05:00), "x" anything else.                   *)
Tokens6 == {"D", "T", "Z", "+", "-", "x"}

Strings == UNION {[1..n -> Tokens6] : n \in 0..MaxLen}

(* Optional[str] *)
Timestamps == {None} \cup {Some(str) : str \in Strings}

(* the strings datetime.fromisoformat accepts *)
IsoForms == {<<"D">>, <<"D", "T">>, <<"D", "T", "+">>, <<"D", "T", "-">>}

FromIsoFormat(str) ==
    IF str \in IsoForms THEN [exc |-> "none", val |-> Some(str)]
    ELSE [exc |-> "ValueError", val |-> None]

EndsWithZ(str) == Len(str) > 0 /\ str[Len(str)] = "Z"

HasPlus(str) == \E i \in 1..Len(str) : str[i] = "+"

RECURSIVE CountDash(_)
CountDash(str) ==
    IF Len(str) = 0 THEN 0
    ELSE (CASE Head(str) = "D" -> 2 [] Head(str) = "-" -> 1 [] OTHER -> 0)
         + CountDash(Tail(str))

(* str.replace('Z', '+00:00') *)
ReplaceZ(str) == [i \in 1..Len(str) |-> IF str[i] = "Z" THEN "+" ELSE str[i]]

(* an exception inside the try block left uncaught *)
HandleUncaught(r) == r

(* except (ValueError, TypeError): return None *)
Handle(r) ==
    IF r.exc \in {"ValueError", "TypeError"} THEN [exc |-> "none", val |-> None] ELSE r

ParseDatetime(o) ==
    IF IsNone(o) \/ Len(o[1]) = 0 THEN [exc |-> "none", val |-> None]
    ELSE IF EndsWithZ(o[1]) THEN Handle(FromIsoFormat(SubSeq(o[1], 1, Len(o[1]) - 1)))
    ELSE IF HasPlus(o[1]) \/ CountDash(o[1]) > 2 THEN Handle(FromIsoFormat(ReplaceZ(o[1])))
    ELSE Handle(FromIsoFormat(o[1]))

InitParse ==
    /\ call \in {[fn |-> "parse_datetime", arg |-> a, done |-> FALSE, out |-> << >>] :
                    a \in Timestamps}
    /\ Untouched

ApplyParse ==
    /\ call.fn = "parse_datetime"
    /\ ~call.done
    /\ call' = [call EXCEPT !.done = TRUE, !.out = ParseDatetime(call.arg)]
    /\ UNCHANGED <<tbl, seq, clock, task, pend, remote, hist, ghost, last, calls, oauth, ops>>

NextParse == ApplyParse

SpecParse == InitParse /\ [][NextParse]_vars

(* ---------------------------------------------------------------------- *)
(* A monetary amount from the remote string to the API response            *)
(* ---------------------------------------------------------------------- *)

Digits == {0, 1, 2, 5}

Units == {0, 12}

(* An amount as the remote side writes it: the whole part and the digits   *)
(* after the point, "12.50" is [units |-> 12, frac |-> <<5, 0>>], at most   *)
(* MaxLen digits after the point.                                           *)
AmountStrings ==
    {[units |-> u, frac |-> f] : u \in Units, f \in UNION {[1..n -> Digits] : n \in 0..MaxLen}}

RECURSIVE DigitsValue(_, _)
DigitsValue(acc, ds) ==
    IF Len(ds) = 0 THEN acc ELSE DigitsValue(acc * 10 + Head(ds), Tail(ds))

(* Decimal(str(amount)): the digits as written and their number *)
ParseAmount(str) == Amt(DigitsValue(str.units, str.frac), Len(str.frac))

(* func.sum over a Numeric(12, 2) column *)
SumNumeric(x, y) == Amt(x.m + y.m, 2)

(* "float(v.price) if v.price else 0" rendered in the JSON response: zero   *)
(* is falsy and becomes 0, any other value of the column is printed by its  *)
(* shortest float representation, which drops the trailing zeros but one.   *)
FloatJson(d) ==
    IF d.m = 0 THEN [units |-> 0, frac |-> << >>]
    ELSE IF d.m % 100 = 0 THEN [units |-> d.m \div 100, frac |-> <<0>>]
    ELSE IF d.m % 10 = 0 THEN [units |-> d.m \div 100, frac |-> <<(d.m % 100) \div 10>>]
    ELSE [units |-> d.m \div 100, frac |-> <<(d.m % 100) \div 10, d.m % 10>>]

(* two amounts are synced into price columns, then listed and summed *)
StoreAndList(args) ==
    [stored |-> <<ToNumeric2(ParseAmount(args[1])), ToNumeric2(ParseAmount(args[2]))>>,
     text   |-> <<FloatJson(ToNumeric2(ParseAmount(args[1]))),
                  FloatJson(ToNumeric2(ParseAmount(args[2])))>>,
     total  |-> FloatJson(SumNumeric(ToNumeric2(ParseAmount(args[1])),
                                     ToNumeric2(ParseAmount(args[2]))))]

InitMoney ==
    /\ call \in {[fn |-> "amount", arg |-> <<a, b>>, done |-> FALSE, out |-> << >>] :
                    a \in AmountStrings, b \in AmountStrings}
    /\ Untouched

ApplyMoney ==
    /\ call.fn = "amount"
    /\ ~call.done
    /\ call' = [call EXCEPT !.done = TRUE, !.out = StoreAndList(call.arg)]
    /\ UNCHANGED <<tbl, seq, clock, task, pend, remote, hist, ghost, last, calls, oauth, ops>>

NextMoney == ApplyMoney

SpecMoney == InitMoney /\ [][NextMoney]_vars


(* ---------------------------------------------------------------------- *)
(* Properties                                                              *)
(* ---------------------------------------------------------------------- *)
LogRow(id) == CHOOSE l \in tbl["logs"] : l.id = id

Terminal(status) == status \in {"success", "error"}

FeedOf(id) == Catalogue[LogRow(id).sync_type][ghost[id].feed]

(* every fetch of run id returned a page of the feed the run began with *)
Undisturbed(id) == ghost[id].stable /\ ~ghost[id].raised /\ ~ghost[id].malformed

NoEmptyPage(feed) == \A i \in DOMAIN feed : feed[i].edges # << >>

ProductKey(r) == <<r.shop_domain, r.shopify_product_id>>
CustomerKey(r) == <<r.shop_domain, r.shopify_customer_id>>
OrderKey(r) == <<r.shop_domain, r.shopify_order_id>>
ShopKey(r) == r.shop_domain

(* C1: after any sequence of sync operations no two Product rows share     *)
(* (shop_domain, shopify_product_id), no two Customer rows share           *)
(* (shop_domain, shopify_customer_id), no two Order rows share             *)
(* (shop_domain, shopify_order_id), and there is at most one Shop row per  *)
(* shop_domain.                                                            *)
C1_NaturalKeysUnique ==
    /\ \A r, q \in tbl["products"] : ProductKey(r) = ProductKey(q) => r = q
    /\ \A r, q \in tbl["customers"] : CustomerKey(r) = CustomerKey(q) => r = q
    /\ \A r, q \in tbl["orders"] : OrderKey(r) = OrderKey(q) => r = q
    /\ \A r, q \in tbl["shops"] : ShopKey(r) = ShopKey(q) => r = q

(* every table holds rows and a product has been synced a second time *)
C1_Witness ==
    /\ \E r \in tbl["products"] : r.updated_at # NULL
    /\ tbl["customers"] # {}
    /\ tbl["orders"] # {}
    /\ tbl["shops"] # {}

C3_StatusOnlyForward ==
    \A id \in DOMAIN hist :
        /\ LogRow(id).status = hist[id][Len(hist[id])]
        /\ hist[id][Len(hist[id])] \in {"in_progress", "success", "error"}
        /\ \A i \in 1 .. (Len(hist[id]) - 1) : hist[id][i] = "in_progress"

(* one run ended in success and one in error, each after a progress update *)
C3_Witness ==
    /\ \E id \in DOMAIN hist : Len(hist[id]) >= 3 /\ LogRow(id).status = "success"
    /\ \E id \in DOMAIN hist : Len(hist[id]) >= 3 /\ LogRow(id).status = "error"

(* C4: for a collection served as K pages, each with at least one record,  *)
(* of which only the last reports hasNextPage=false, an entity sync issues *)
(* exactly K fetch calls and then stops.                                   *)
C4_ExactlyKFetches ==
    \A id \in DOMAIN ghost :
        (Undisturbed(id) /\ NoEmptyPage(FeedOf(id)))
            => /\ ghost[id].fetches <= Len(FeedOf(id))
               /\ LogRow(id).status = "success" => ghost[id].fetches = Len(FeedOf(id))

(* a run over a two-page collection has stopped *)
C4_Witness ==
    \E id \in DOMAIN ghost :
        /\ Undisturbed(id) /\ NoEmptyPage(FeedOf(id)) /\ Len(FeedOf(id)) = 2
        /\ LogRow(id).status = "success"

RECURSIVE TotalRecords(_)
TotalRecords(feed) ==
    IF feed = << >> THEN 0 ELSE Len(Head(feed).edges) + TotalRecords(Tail(feed))

Nodes(feed) == UNION {{feed[i].edges[j] : j \in DOMAIN feed[i].edges} : i \in DOMAIN feed}

(* the run is over, every fetch of it returned a page of one and the same  *)
(* feed, and the last page reported hasNextPage=false                      *)
Exhausted(id) ==
    /\ LogRow(id).status = "success"
    /\ Undisturbed(id)
    /\ ghost[id].pages >= 1
    /\ ~ghost[id].last_more

(* C5 (as stated): when an entity sync run has exhausted its pages and ends *)
(* in success, the last_cursor recorded on the run equals the endCursor of *)
(* the last page fetched.                                                  *)
C5_CursorIsLastEndCursor ==
    \A id \in DOMAIN ghost :
        (Exhausted(id) /\ ghost[id].empties = 0)
            => LogRow(id).last_cursor = ghost[id].last_end

(* C5 (amended): when an entity sync run has exhausted its pages, the last *)
(* of them holding a record, and ends in success, the last_cursor recorded *)
(* on the run is null.                                                     *)
C5_CursorNullAtEnd ==
    \A id \in DOMAIN ghost :
        (Exhausted(id) /\ ghost[id].empties = 0) => LogRow(id).last_cursor = NULL

(* a products run over two pages has ended in success; its last page       *)
(* carried an endCursor                                                    *)
C5_Witness ==
    \E id \in DOMAIN ghost :
        /\ Exhausted(id) /\ ghost[id].empties = 0
        /\ LogRow(id).sync_type = "products"
        /\ ghost[id].pages = 2 /\ ghost[id].last_end # NULL

(* C6 (as stated): a first sync of a product feed served over several      *)
(* pages that holds N distinct products, none of them stored before, ends  *)
(* with records_processed = N, records_created = N and status success.     *)
C6_FirstSyncCreatesAll ==
    \A id \in DOMAIN ghost :
        (/\ LogRow(id).sync_type = "products"
         /\ Terminal(LogRow(id).status)
         /\ Undisturbed(id)
         /\ Len(FeedOf(id)) >= 2
         /\ ghost[id].fresh = TotalRecords(FeedOf(id)))
            => /\ LogRow(id).status = "success"
               /\ LogRow(id).records_processed = TotalRecords(FeedOf(id))
               /\ LogRow(id).records_created = TotalRecords(FeedOf(id))

(* run id went through its whole collection and every fetch returned data *)
CompletedOn(id) == LogRow(id).status = "success" /\ Undisturbed(id)

SameCollection(p, id) ==
    /\ LogRow(p).shop_domain = LogRow(id).shop_domain
    /\ LogRow(p).sync_type = LogRow(id).sync_type
    /\ ghost[p].feed = ghost[id].feed

(* C7: running the same entity sync a second time against an unchanged     *)
(* remote data set produces a run with records_created = 0.                *)
C7_RerunCreatesNothing ==
    \A p, id \in DOMAIN ghost :
        (p < id /\ SameCollection(p, id) /\ CompletedOn(p) /\ CompletedOn(id))
            => LogRow(id).records_created = 0

(* the same collection was synced twice in a row, the second run meeting   *)
(* records                                                                 *)
C7_Witness ==
    \E p, id \in DOMAIN ghost :
        /\ p < id /\ SameCollection(p, id) /\ CompletedOn(p) /\ CompletedOn(id)
        /\ LogRow(id).records_processed >= 2
        /\ last.rerun

(* C8: re-running a sync (an entity sync or full_sync) against an          *)
(* unchanged remote data set alters no business field of any Product,      *)
(* ProductVariant, Customer, Order or OrderLineItem row and leaves the     *)
(* rows per natural key the same: when the repetition completes, the       *)
(* store holds what it held when the repetition began.                     *)
C8_RerunLeavesStore ==
    [][(/\ task["t1"].pc # "idle"
        /\ task'["t1"].pc = "idle"
        /\ task["t1"].rerun
        /\ last'.sig = task["t1"].sig)
           => Business(tbl') = task["t1"].snap]_vars

(* a repetition that had orders with line items to write has completed *)
C8_Witness ==
    /\ last.rerun
    /\ last.sig.op \in {"orders", "full"}
    /\ tbl["line_items"] # {}

(* the stored row of a remote record *)
RowOf(kind, shop, node) ==
    CASE kind = "products" ->
           {r \in tbl["products"] : ProductKey(r) = <<shop, StripGid(node.id, "Product")>>}
      [] kind = "customers" ->
           {r \in tbl["customers"] : CustomerKey(r) = <<shop, StripGid(node.id, "Customer")>>}
      [] kind = "orders" ->
           {r \in tbl["orders"] : OrderKey(r) = <<shop, StripGid(node.id, "Order")>>}

LocalProduct(products, li) ==
    LET hit == {p \in products : /\ p.shop_domain = li.shop_domain
                                 /\ p.shopify_product_id = li.shopify_product_id}
    IN IF hit = {} THEN NULL ELSE (CHOOSE p \in hit : TRUE).id

(* an order whose customer and line items are fully given *)
WellFormedOrder(node) ==
    /\ ~IsNone(node.customer)
    /\ ~IsNone(node.customer[1].id)
    /\ ~IsNone(node.customer[1].total_spent)
    /\ \A i \in DOMAIN node.items : ~IsNone(node.items[i].product)

(* the line items a step writes carry the local id of their product as the *)
(* products table has it at that moment, or null when it has none          *)
LineItemsResolved ==
    \A li \in tbl'["line_items"] :
        li.id > seq["line_items"] => li.product_id = LocalProduct(tbl["products"], li)

(* the upsert of a well-formed order never raises, whether or not its      *)
(* products are stored; what a run counts as failed are the upserts that   *)
(* raised and the rows it inserted, nothing else                           *)
AbsentProductHarmless ==
    \A id \in DOMAIN ghost :
        (LogRow(id).sync_type = "orders" /\ Undisturbed(id))
            => /\ \A node \in Nodes(FeedOf(id)) :
                      WellFormedOrder(node) => node.id \notin ghost[id].bad
               /\ LogRow(id).status = "success"
                      => LogRow(id).records_failed
                             = Cardinality(ghost[id].bad) + ghost[id].fresh

KnownCustomer(customers, o) ==
    \E c \in customers : /\ c.shop_domain = o.shop_domain
                         /\ c.shopify_customer_id = o.shopify_customer_id

(* C11 (as stated): an order whose embedded customer names an external id  *)
(* for which no Customer row exists when the order is synced is stored     *)
(* with customer_id = null.                                                *)
C11_UnknownCustomerStoredNull ==
    [][\A o \in tbl'["orders"] :
          (o \notin tbl["orders"] /\ ~KnownCustomer(tbl["customers"], o))
              => o.customer_id = NULL]_vars

(* no active access token is stored for the shop *)
NoToken(shop) == ~\E r \in tbl["auths"] : r.shop_domain = shop /\ r.is_active

(* C12: if no active access token exists for the shop when sync_shop_info, *)
(* sync_products, sync_customers or sync_orders is invoked (by a caller or *)
(* by full_sync), the operation fails without issuing a fetch: an          *)
(* invocation leaves no coroutine waiting on a fetch and writes no Shop    *)
(* row, and every run created in the step has counted no fetch call and    *)
(* is in error.                                                            *)
C12_NoTokenNoFetch ==
    [][NoToken("s1")
          => /\ task["t1"].pc = "idle"
                    => task'["t1"].pc = "idle" /\ tbl'["shops"] = tbl["shops"]
             /\ \A l \in tbl'["logs"] :
                    l.id > seq["logs"] => l.status = "error" /\ ghost'[l.id].fetches = 0]_vars

(* the token was revoked, then a full_sync was invoked: its three runs     *)
(* are in error without a fetch                                            *)
C12_Witness ==
    /\ NoToken("s1")
    /\ \E r \in tbl["auths"] : r.shop_domain = "s1"
    /\ \A k \in SyncTypes :
          \E l \in tbl["logs"] :
              /\ l.sync_type = k /\ l.status = "error"
              /\ l.error_message = Some("No auth data found")
              /\ ghost[l.id].fetches = 0

(* C13 (as stated): if no active access token exists for the shop when     *)
(* sync_products, sync_customers or sync_orders is invoked, the set of     *)
(* SyncRun rows is unchanged.                                              *)
C13_NoTokenNoRun ==
    [][(NoToken("s1") /\ task["t1"].pc = "idle") => tbl'["logs"] = tbl["logs"]]_vars

(* C14: if a page fetch raises, the run issues no further fetch call (the  *)
(* failed page is not retried, no later page is requested) and ends in     *)
(* error: the fetch that raised is the last one the run issued, the run is *)
(* in error with the message of the exception, and no coroutine waits on a *)
(* fetch of it.                                                            *)
C14_FetchErrorEndsRun ==
    \A id \in DOMAIN ghost :
        ghost[id].raised
            => /\ LogRow(id).status = "error"
               /\ LogRow(id).error_message = Some("fetch failed")
               /\ ghost[id].fetches = ghost[id].pages + 1
               /\ ~(task["t1"].pc = "page_fetch" /\ task["t1"].log = id)

(* the fetch of the second page of a run raised, and an operation has been *)
(* invoked since                                                           *)
C14_Witness ==
    \E id \in DOMAIN ghost :
        /\ ghost[id].raised /\ ghost[id].pages >= 1
        /\ \E l \in tbl["logs"] : l.id > id

(* C15 (as stated): a page response that does not carry the collection     *)
(* with its records and pageInfo is treated as a transport error: the run  *)
(* ends in error, not in success.                                          *)
C15_MalformedEndsInError ==
    \A id \in DOMAIN ghost : ghost[id].malformed => LogRow(id).status = "error"

(* the place of an operation in the order shop profile, products,          *)
(* customers, orders                                                       *)
Rank(kind) ==
    CASE kind = "shop" -> 0
      [] kind = "products" -> 1
      [] kind = "customers" -> 2
      [] kind = "orders" -> 3

(* the business tables an operation writes *)
OwnTables(kind) ==
    CASE kind = "shop" -> {"shops"}
      [] kind = "products" -> {"products", "variants"}
      [] kind = "customers" -> {"customers"}
      [] kind = "orders" -> {"orders", "line_items", "customers"}

(* while full_sync waits on a fetch of one operation, the entity syncs     *)
(* that have returned are exactly the ones earlier in the order, the run   *)
(* it waits for is the run of that operation, and every other run has      *)
(* ended                                                                   *)
FullSyncInOrder ==
    (task["t1"].full /\ task["t1"].pc # "idle")
        => /\ DOMAIN task["t1"].results
                  = {k \in SyncTypes : Rank(k) < Rank(task["t1"].kind)}
           /\ task["t1"].kind = "shop" => task["t1"].pc = "shop_fetch"
           /\ task["t1"].kind # "shop"
                  => /\ task["t1"].pc = "page_fetch"
                     /\ LogRow(task["t1"].log).sync_type = task["t1"].kind
           /\ \A l \in tbl["logs"] :
                  (task["t1"].kind = "shop" \/ l.id # task["t1"].log) => Terminal(l.status)

(* a step of full_sync writes business rows of the operation whose fetch   *)
(* has just returned only, and the runs it creates are runs of later       *)
(* operations, created in the order of the operations                      *)
FullSyncStep ==
    (task["t1"].full /\ task["t1"].pc # "idle")
        => /\ \A tn \in TableNames \ (OwnTables(task["t1"].kind) \cup {"logs", "auths"}) :
                  tbl'[tn] = tbl[tn]
           /\ \A l \in tbl'["logs"] :
                  l.id > seq["logs"] => Rank(l.sync_type) > Rank(task["t1"].kind)
           /\ \A l, m \in tbl'["logs"] :
                  (seq["logs"] < l.id /\ l.id < m.id) => Rank(l.sync_type) < Rank(m.sync_type)

(* C16: full_sync performs its sub-operations in the fixed order shop      *)
(* profile, products, customers, orders: no fetch or write of a later      *)
(* operation happens before the earlier operation has finished.            *)
C16_FullSyncFixedOrder == []FullSyncInOrder /\ [][FullSyncStep]_vars

(* a full_sync has gone through its four operations, each over its data *)
C16_Witness ==
    /\ last.sig.op = "full"
    /\ tbl["shops"] # {}
    /\ \A k \in SyncTypes :
          \E l \in tbl["logs"] : l.sync_type = k /\ l.status = "success" /\ ghost[l.id].pages >= 1

(* the runs recorded for an operation on a shop *)
RunsOf(shop, kind) == {l \in tbl["logs"] : l.shop_domain = shop /\ l.sync_type = kind}

(* C17 (as stated): each invocation of sync_shop_info, sync_products,      *)
(* sync_customers and sync_orders creates exactly one SyncRun row for its  *)
(* (shop_domain, entity type): there are as many runs of an operation as   *)
(* it has been invoked.                                                    *)
C17_OneRunPerInvocation ==
    \A k \in DOMAIN Catalogue : Cardinality(RunsOf("s1", k)) = calls[k]

(* C17 (amended): each invocation of sync_products, sync_customers and     *)
(* sync_orders creates exactly one SyncRun row for its (shop_domain,       *)
(* entity type); sync_shop_info creates none.                              *)
C17_OneRunPerEntitySync ==
    /\ \A k \in SyncTypes : Cardinality(RunsOf("s1", k)) = calls[k]
    /\ \A l \in tbl["logs"] : l.sync_type \in SyncTypes /\ l.shop_domain = "s1"

(* the shop profile has been synced and an entity sync invoked twice, once *)
(* of them without a token                                                 *)
C17_Witness ==
    /\ calls["shop"] >= 1
    /\ tbl["shops"] # {}
    /\ \E k \in SyncTypes :
          /\ calls[k] = 2
          /\ \E l \in RunsOf("s1", k) : l.error_message = Some("No auth data found")
          /\ \E l \in RunsOf("s1", k) : l.status = "success"

(* C18 (as stated): after each page of a products, customers or orders run *)
(* has been processed, and while the run is still in_progress, the run's   *)
(* persisted records_processed, records_created, records_updated and       *)
(* records_failed equal the running counters and its persisted last_cursor *)
(* is the current resumption cursor.                                       *)
C18_CheckpointAfterPage ==
    (task["t1"].pc = "page_fetch" /\ ghost[task["t1"].log].pages >= 1)
        => /\ LogRow(task["t1"].log).status = "in_progress"
           /\ LogRow(task["t1"].log).records_processed = task["t1"].acc.stats.processed
           /\ LogRow(task["t1"].log).records_created = task["t1"].acc.stats.created
           /\ LogRow(task["t1"].log).records_updated = task["t1"].acc.stats.updated
           /\ LogRow(task["t1"].log).records_failed = task["t1"].acc.stats.failed
           /\ LogRow(task["t1"].log).last_cursor = task["t1"].cursor

(* C19 (as stated): when a run ends in error because a fetch raised,       *)
(* error_message holds the exception message and the persisted counters    *)
(* (processed, created, updated, failed) are exactly the values persisted  *)
(* at the last per-page checkpoint, that is the values the row held before *)
(* the error was recorded.                                                 *)
C19_ErrorFreezesCounters ==
    [][\A l \in tbl["logs"] : \A m \in tbl'["logs"] :
          (/\ l.id = m.id
           /\ l.status = "in_progress" /\ m.status = "error"
           /\ ghost'[l.id].raised)
              => /\ m.error_message = Some("fetch failed")
                 /\ m.records_processed = l.records_processed
                 /\ m.records_created = l.records_created
                 /\ m.records_updated = l.records_updated
                 /\ m.records_failed = l.records_failed]_vars

(* the first fetch of run id has been issued and has not returned *)
FirstFetchOut(id) ==
    /\ ghost[id].fetches = 1 /\ ghost[id].pages = 0
    /\ ~ghost[id].raised /\ ~ghost[id].malformed

(* C20: in sync_products, sync_customers and sync_orders the SyncRun row   *)
(* exists with status in_progress before the first page fetch of the run   *)
(* is issued: while that fetch is out, the row is there, in_progress, and  *)
(* its creation is the only write made to it; and a coroutine waits on a   *)
(* page fetch only for a run that is stored as in_progress.                *)
C20_RunBeforeFirstFetch ==
    /\ \A id \in DOMAIN ghost :
          FirstFetchOut(id)
              => /\ \E l \in tbl["logs"] : l.id = id /\ l.status = "in_progress"
                 /\ hist[id] = <<"in_progress">>
    /\ task["t1"].pc = "page_fetch"
          => \E l \in tbl["logs"] : l.id = task["t1"].log /\ l.status = "in_progress"

(* full_sync waits on the first fetch of its orders run *)
C20_Witness ==
    /\ task["t1"].pc = "page_fetch" /\ task["t1"].full /\ task["t1"].kind = "orders"
    /\ FirstFetchOut(task["t1"].log)

(* the records of the first n pages of a feed *)
NodesUpTo(feed, n) ==
    UNION {{feed[i].edges[j] : j \in DOMAIN feed[i].edges} : i \in 1 .. n}

(* C21: within one run the first fetch passes no cursor and every later    *)
(* fetch passes the endCursor of the page returned just before it; all     *)
(* records of a page are upserted before the next page is fetched: while a *)
(* fetch is out, it is the one fetch beyond the pages returned, its cursor *)
(* is null before any page and the last endCursor after, and every record  *)
(* of the pages returned has been met and, unless its upsert raised, is    *)
(* stored.                                                                 *)
C21_CursorOrder ==
    task["t1"].pc = "page_fetch"
        => /\ ghost[task["t1"].log].fetches = ghost[task["t1"].log].pages + 1
           /\ task["t1"].cursor = IF ghost[task["t1"].log].pages = 0 THEN NULL
                                  ELSE ghost[task["t1"].log].last_end
           /\ Undisturbed(task["t1"].log)
                  => /\ task["t1"].cursor = ghost[task["t1"].log].pages
                     /\ task["t1"].acc.seen
                            = Cardinality(NodesUpTo(FeedOf(task["t1"].log),
                                                    ghost[task["t1"].log].pages))
                     /\ \A node \in NodesUpTo(FeedOf(task["t1"].log), ghost[task["t1"].log].pages) :
                            node.id \notin task["t1"].acc.bad
                                => RowOf(task["t1"].kind, task["t1"].shop, node) # {}

(* the fetch of the second page is out, after a first page of two records  *)
(* of which one is stored                                                  *)
C21_Witness ==
    /\ task["t1"].pc = "page_fetch"
    /\ ghost[task["t1"].log].pages = 1
    /\ task["t1"].cursor # NULL
    /\ task["t1"].acc.seen = 2
    /\ Cardinality(task["t1"].acc.bad) = 1

(* C22 (as stated): a page that holds no record but reports                *)
(* hasNextPage=true does not end the walk: a run stops fetching only when  *)
(* a returned page reports hasNextPage=false.                              *)
C22_StopsOnlyAtLastPage ==
    \A id \in DOMAIN ghost :
        (LogRow(id).status = "success" /\ Undisturbed(id) /\ ghost[id].pages >= 1)
            => ~ghost[id].last_more

(* the latest run of an operation on a shop *)
LatestRun(shop, kind) ==
    CHOOSE l \in RunsOf(shop, kind) : \A m \in RunsOf(shop, kind) : m.id <= l.id

(* what a line item row holds of its remote record *)
ItemFields(r) ==
    [shopify_line_item_id |-> r.shopify_line_item_id,
     shopify_product_id |-> r.shopify_product_id,
     title |-> r.title, price |-> r.price]

(* the same of a line item of a remote order whose products are given *)
RemoteItemFields(it) ==
    [shopify_line_item_id |-> StripGid(it.id, "LineItem"),
     shopify_product_id |-> StripGid(it.product[1], "Product"),
     title |-> it.title, price |-> ToNumeric2(it.price)]

(* C23: after an order record is successfully upserted, the line-item rows *)
(* stored for that order are exactly the line items of the current remote  *)
(* record: for every order the latest orders run has upserted without an   *)
(* exception, the rows of the order are as many as the record's line       *)
(* items and hold the fields of these, so that nothing of an earlier sync  *)
(* is left and nothing is there twice.                                     *)
C23_LineItemsReplaced ==
    (RunsOf("s1", "orders") # {} /\ Undisturbed(LatestRun("s1", "orders").id))
        => \A node \in NodesUpTo(FeedOf(LatestRun("s1", "orders").id),
                                 ghost[LatestRun("s1", "orders").id].pages) :
              node.id \notin ghost[LatestRun("s1", "orders").id].bad
                  => \E o \in RowOf("orders", "s1", node) :
                        /\ Cardinality({r \in tbl["line_items"] : r.order_id = o.id})
                               = Len(node.items)
                        /\ {ItemFields(r) : r \in {q \in tbl["line_items"] : q.order_id = o.id}}
                               = {RemoteItemFields(node.items[i]) : i \in DOMAIN node.items}

(* order 1 was stored with two line items and has been synced again from a *)
(* record that holds one of them only                                      *)
C23_Witness ==
    /\ RunsOf("s1", "orders") # {}
    /\ Undisturbed(LatestRun("s1", "orders").id)
    /\ ghost[LatestRun("s1", "orders").id].feed = 2
    /\ ghost[LatestRun("s1", "orders").id].seen >= 2
    /\ Gid("Order", 1) \notin ghost[LatestRun("s1", "orders").id].bad
    /\ seq["line_items"] >= 4
    /\ \E o \in tbl["orders"] :
          /\ o.shopify_order_id = <<1>>
          /\ Cardinality({r \in tbl["line_items"] : r.order_id = o.id}) = 1

(* the records the latest run of an operation has upserted without an      *)
(* exception, when every fetch of it returned a page of one feed           *)
Upserted(kind) ==
    IF RunsOf("s1", kind) # {} /\ Undisturbed(LatestRun("s1", kind).id)
    THEN {node \in NodesUpTo(FeedOf(LatestRun("s1", kind).id),
                             ghost[LatestRun("s1", kind).id].pages) :
             node.id \notin ghost[LatestRun("s1", kind).id].bad}
    ELSE {}

(* C24 (as stated), for products and orders: when a record whose natural   *)
(* key already exists locally is upserted, every business field of the     *)
(* local row afterwards equals the value derived from the current remote   *)
(* record; no field keeps its value from an earlier observation.           *)
C24_FullyOverwritten ==
    /\ \A node \in Upserted("products") :
          \A r \in RowOf("products", "s1", node) :
              r.title = node.title /\ r.status = Lower(node.status[1])
    /\ \A node \in Upserted("orders") :
          \A r \in RowOf("orders", "s1", node) :
              /\ r.name = node.name
              /\ r.email = node.email
              /\ r.total_price = ToNumeric2(node.total)
              /\ r.shopify_customer_id = StripGid(node.customer[1].id[1], "Customer")

VariantKey(r) == <<r.product_id, r.shopify_variant_id>>

(* the natural keys present in the tables tb *)
KeysIn(tb) ==
    [shops |-> {ShopKey(r) : r \in tb["shops"]},
     products |-> {ProductKey(r) : r \in tb["products"]},
     variants |-> {VariantKey(r) : r \in tb["variants"]},
     customers |-> {CustomerKey(r) : r \in tb["customers"]},
     orders |-> {OrderKey(r) : r \in tb["orders"]}]

(* C25: no sync operation ever removes a Shop, Product, ProductVariant,    *)
(* Customer or Order row: in every step the natural keys present for each  *)
(* of these entities are still present afterwards, also when a record is   *)
(* no longer in the remote feed.                                           *)
C25_NoEntityRemoved ==
    [][\A e \in DOMAIN KeysIn(tbl) : KeysIn(tbl)[e] \subseteq KeysIn(tbl')[e]]_vars

(* the products were synced again from a feed that no longer holds product *)
(* 3 nor variant 2 of product 1: both are still stored                     *)
C25_Witness ==
    /\ RunsOf("s1", "products") # {}
    /\ Undisturbed(LatestRun("s1", "products").id)
    /\ ghost[LatestRun("s1", "products").id].feed = 2
    /\ LatestRun("s1", "products").status = "success"
    /\ ghost[LatestRun("s1", "products").id].okc >= 1
    /\ \E r \in tbl["products"] : r.shopify_product_id = <<3>>
    /\ \E r \in tbl["variants"] : r.shopify_variant_id = <<2>>

(* the rows of a shop *)
RowsOfShop(tb, shop) == [tn \in TableNames |-> {r \in tb[tn] : r.shop_domain = shop}]

(* C26: a sync operation invoked for shop A never creates, modifies or     *)
(* deletes an entity row or SyncRun whose shop_domain is another shop B,   *)
(* also when A and B hold records with the same external ids: a step       *)
(* changes the rows of one shop at most, the shop of the operation that is *)
(* running; and rows of two shops are different rows.                      *)
C26_ShopIsolation ==
    [][/\ \A a, b \in Shops :
             (a # b /\ RowsOfShop(tbl', a) # RowsOfShop(tbl, a))
                 => RowsOfShop(tbl', b) = RowsOfShop(tbl, b)
       /\ \A b \in Shops :
             (task["t1"].pc # "idle" /\ b # task["t1"].shop)
                 => RowsOfShop(tbl', b) = RowsOfShop(tbl, b)
       /\ \A b \in Shops :
             (task'["t1"].pc # "idle" /\ b # task'["t1"].shop)
                 => RowsOfShop(tbl', b) = RowsOfShop(tbl, b)
       /\ \A tn \in TableNames : \A r, q \in tbl'[tn] :
             r.shop_domain # q.shop_domain => r.id # q.id]_vars

(* both shops hold product 1; the one of s1 has been synced a second time  *)
(* since, the one of s2 is as it was created                               *)
C26_Witness ==
    \E r, q \in tbl["products"] :
        /\ r.shop_domain = "s1" /\ q.shop_domain = "s2"
        /\ r.shopify_product_id = <<1>> /\ q.shopify_product_id = <<1>>
        /\ r.updated_at # NULL
        /\ q.updated_at = NULL

(* C27: for each of the sync types products, orders and customers the      *)
(* status query for a shop reports never_synced with records_processed = 0 *)
(* when no SyncRun exists for that (shop, type), and otherwise the status  *)
(* (in_progress, success or error) and records_processed of the SyncRun of *)
(* that (shop, type) created most recently.                                *)
C27_StatusOfLatestRun ==
    \A k \in SyncTypes :
        /\ GetSyncStatus("s1")[k].sync_type = k
        /\ RunsOf("s1", k) = {}
              => /\ GetSyncStatus("s1")[k].status = "never_synced"
                 /\ GetSyncStatus("s1")[k].records_processed = 0
        /\ RunsOf("s1", k) # {}
              => /\ GetSyncStatus("s1")[k].status = LatestRun("s1", k).status
                 /\ GetSyncStatus("s1")[k].status \in {"in_progress", "success", "error"}
                 /\ GetSyncStatus("s1")[k].records_processed
                        = LatestRun("s1", k).records_processed

(* one type was never synced; of another the latest run is in progress     *)
(* with records processed, after an earlier run that ended in error        *)
C27_Witness ==
    /\ \E k \in SyncTypes : RunsOf("s1", k) = {}
    /\ \E k \in SyncTypes :
          /\ Cardinality(RunsOf("s1", k)) = 2
          /\ LatestRun("s1", k).status = "in_progress"
          /\ LatestRun("s1", k).records_processed >= 1
          /\ \E l \in RunsOf("s1", k) : l.status = "error"

(* C28: _parse_datetime never raises; for an absent or empty timestamp it  *)
(* yields None, and whatever else it yields is a datetime that              *)
(* fromisoformat produced, so an unparsable timestamp yields None too and   *)
(* the enclosing record goes on.                                            *)
C28_ParseDatetimeNeverRaises ==
    (call.fn = "parse_datetime" /\ call.done)
        => /\ call.out.exc = "none"
           /\ (IsNone(call.arg) \/ call.arg = Some(<< >>)) => IsNone(call.out.val)
           /\ ~IsNone(call.out.val) => call.out.val[1] \in IsoForms
           /\ (~IsNone(call.arg) /\ \E i \in 1..Len(call.arg[1]) : call.arg[1][i] = "x")
                 => IsNone(call.out.val)

(* a timestamp with a stray Z before its offset was handed in, and None    *)
(* came back                                                                *)
C28_Witness ==
    /\ call.fn = "parse_datetime"
    /\ call.done
    /\ call.arg = Some(<<"D", "Z", "+">>)
    /\ call.out = [exc |-> "none", val |-> None]

(* the value of an amount string, of a stored amount and of their sum, as  *)
(* integers at a common scale                                               *)
Scaled(d, e) == d.m * Pow10(e - d.e)

(* C29: a monetary amount is stored as the exact decimal value of the      *)
(* remote amount string and comes back as the same string (12.50 stays     *)
(* 12.50), and the sum of stored amounts is the exact sum of the strings   *)
(* (0.10 + 0.20 = 0.30).                                                    *)
C29_ExactRoundTrip ==
    (call.fn = "amount" /\ call.done /\ \A i \in 1..2 : Len(call.arg[i].frac) <= 3)
        => /\ \A i \in 1..2 :
                /\ Scaled(call.out.stored[i], 3) = Scaled(ParseAmount(call.arg[i]), 3)
                /\ call.out.text[i] = call.arg[i]
           /\ Scaled(ParseAmount(call.out.total), 3)
                 = Scaled(ParseAmount(call.arg[1]), 3) + Scaled(ParseAmount(call.arg[2]), 3)

AuthOf(tb, shop) == {r \in tb["auths"] : r.shop_domain = shop}

(* what a step of save_auth_data(shop, tok) does to the auth records *)
SaveStep ==
    \A shop \in Shops : \A tok \in AuthTokens :
        SaveAuth(shop, tok)
            => /\ Cardinality(AuthOf(tbl', shop)) = 1
               /\ \A r \in AuthOf(tbl', shop) : r.access_token = tok /\ r.is_active
               /\ \A q \in AuthOf(tbl, shop) : \E r \in AuthOf(tbl', shop) : r.id = q.id
               /\ \A other \in Shops \ {shop} : AuthOf(tbl', other) = AuthOf(tbl, other)
               /\ Cardinality(tbl'["auths"])
                     = Cardinality(tbl["auths"]) + (IF AuthOf(tbl, shop) = {} THEN 1 ELSE 0)

(* C30: there is never more than one auth record per shop_domain; a save   *)
(* for a shop that has a record, active or revoked, leaves that record     *)
(* with the same id, the new access token and is_active true; a save for a *)
(* shop without a record adds exactly one record, active, with the token.  *)
C30_OneAuthPerShop ==
    /\ [](\A shop \in Shops : Cardinality(AuthOf(tbl, shop)) <= 1)
    /\ [][SaveStep]_vars

(* s2 installed first and s1 second; s1 was saved again with the other     *)
(* token and s2, revoked once, is active again                             *)
C30_Witness ==
    /\ \E r \in AuthOf(tbl, "s1") :
          r.id = 2 /\ r.access_token = "tokB" /\ r.is_active /\ r.updated_at # NULL
    /\ \E r \in AuthOf(tbl, "s2") : r.id = 1 /\ r.is_active /\ r.updated_at # NULL
    /\ ops = MaxOps

ActiveOf(tb, shop) == {r \in AuthOf(tb, shop) : r.is_active}

(* what a step of revoke_auth(shop) does to the auth records *)
RevokeStep ==
    \A shop \in Shops :
        RevokeAuth(shop)
            => /\ RevokeAuthReturn(FreshWorld, shop) <=> ActiveOf(tbl, shop) # {}
               /\ ActiveOf(tbl, shop) # {}
                     => /\ ActiveOf(tbl', shop) = {}
                        /\ \A q \in AuthOf(tbl, shop) : \E r \in AuthOf(tbl', shop) :
                              r.id = q.id /\ r.access_token = q.access_token /\ ~r.is_active
                        /\ \A other \in Shops \ {shop} : AuthOf(tbl', other) = AuthOf(tbl, other)
               /\ ActiveOf(tbl, shop) = {} => tbl' = tbl

(* C31: revoke_auth(shop) returns True exactly when the shop has an active *)
(* auth record, and then the record is deactivated, so that get_auth_data  *)
(* finds nothing; when the shop has no active record (never saved, or      *)
(* already revoked) it returns False and no auth record changes.           *)
C31_RevokeDeactivates == [][RevokeStep]_vars

(* s1 saved and revoked: its record is there, inactive, while s2 is active *)
C31_Witness ==
    /\ AuthOf(tbl, "s1") # {}
    /\ ActiveOf(tbl, "s1") = {}
    /\ ActiveOf(tbl, "s2") # {}
    /\ ops = 3

(* C32: of the records a run upserted successfully, it counts as created   *)
(* exactly those whose natural key had no local row immediately before the *)
(* upsert, and as updated all the others.                                  *)
C32_CreatedIffNoRowBefore ==
    \A id \in DOMAIN ghost :
        LogRow(id).status = "success"
            => /\ LogRow(id).records_created = ghost[id].fresh
               /\ LogRow(id).records_updated = ghost[id].okc - ghost[id].fresh

(* C33: each variant row points, by product_id, at an existing product row *)
(* of the same shop and external product id, and each line item row        *)
(* points, by order_id, at an existing order row of the same shop and      *)
(* external order id; the parent row was committed before the child row    *)
(* was written (its created_at is earlier).                                *)
C33_ChildPointsAtCommittedParent ==
    /\ \A v \in tbl["variants"] : \E p \in tbl["products"] :
          /\ p.id = v.product_id
          /\ p.shop_domain = v.shop_domain
          /\ p.shopify_product_id = v.shopify_product_id
          /\ p.created_at < v.created_at
    /\ \A i \in tbl["line_items"] : \E o \in tbl["orders"] :
          /\ o.id = i.order_id
          /\ o.shop_domain = i.shop_domain
          /\ o.shopify_order_id = i.shopify_order_id
          /\ o.created_at < i.created_at

(* two products with their variants and two orders with their line items   *)
(* are stored                                                               *)
C33_Witness ==
    /\ Cardinality({v.product_id : v \in tbl["variants"]}) >= 2
    /\ Cardinality({i.order_id : i \in tbl["line_items"]}) >= 2

(* C34: an order record whose customer field is null is upserted with      *)
(* customer_id null and is not counted as failed: once an orders run has   *)
(* gone through its pages, every such order of those pages is stored, its  *)
(* customer_id is null, and its upsert did not raise.                      *)
C34_GuestOrderStored ==
    \A id \in DOMAIN ghost :
        (LogRow(id).sync_type = "orders" /\ Exhausted(id))
            => \A node \in Nodes(FeedOf(id)) :
                  IsNone(node.customer)
                     => /\ node.id \notin ghost[id].bad
                        /\ \E o \in tbl["orders"] :
                              /\ o.shopify_order_id = StripGid(node.id, "Order")
                              /\ o.customer_id = NULL

(* C35: in a run that ended in success every record of the fetched pages   *)
(* is counted in exactly one of created, updated and failed:               *)
(* processed = created + updated, and created + updated + failed is the    *)
(* number of records met in the pages.                                     *)
C35_CountersPartitionRecords ==
    \A id \in DOMAIN ghost :
        LogRow(id).status = "success"
            => /\ LogRow(id).records_processed
                     = LogRow(id).records_created + LogRow(id).records_updated
               /\ LogRow(id).records_created + LogRow(id).records_updated
                     + LogRow(id).records_failed = ghost[id].seen

VariantOwnKey(r) == <<r.shop_domain, r.shopify_product_id, r.shopify_variant_id>>

Duplicates(rows, Key(_)) == {r \in rows : \E q \in rows : q # r /\ Key(q) = Key(r)}

(* the rows a step adds to a table carry keys that no row of the table had *)
(* when the step began                                                     *)
AddsOnlyNewKeys(tb, Key(_)) ==
    \A r \in tbl'[tb] : (\A q \in tbl[tb] : q.id # r.id)
                            => \A q \in tbl[tb] : Key(q) # Key(r)

(* C36: when two runs for the same shop interleave only at their page      *)
(* fetches, no table ever holds two rows with the same natural key, and    *)
(* whatever a run inserts on a reply has a key that was not stored when    *)
(* that reply arrived: lookup and insert are not separated by a            *)
(* suspension.                                                             *)
C36_NoDuplicateUnderInterleaving ==
    /\ [](/\ Duplicates(tbl["products"], ProductKey) = {}
          /\ Duplicates(tbl["variants"], VariantOwnKey) = {}
          /\ Duplicates(tbl["customers"], CustomerKey) = {}
          /\ Duplicates(tbl["orders"], OrderKey) = {})
    /\ [][/\ AddsOnlyNewKeys("products", ProductKey)
          /\ AddsOnlyNewKeys("customers", CustomerKey)
          /\ AddsOnlyNewKeys("orders", OrderKey)]_vars

(* both callers are in the middle of a products run, each with the first   *)
(* page behind it and its second fetch out, and the rows of that page were  *)
(* written by one run and overwritten by the other                          *)
C36_Witness ==
    /\ \A t \in Tasks :
          /\ task[t].pc = "page_fetch"
          /\ task[t].kind = "products"
          /\ ghost[task[t].log].pages = 1
    /\ task["t1"].log # task["t2"].log
    /\ \E r \in tbl["products"] : r.updated_at # NULL

(* the operations a step of full_sync invokes: those after the operation   *)
(* it stood at, up to the one it stands at afterwards, none left out; when *)
(* the step ends the full sync, all the remaining ones were invoked and    *)
(* the three entity syncs have returned their counters                     *)
FullSyncGoesOn ==
    (\/ StartFullSync("t1", "s1")
     \/ (task["t1"].full /\ task["t1"].pc # "idle" /\ task'["t1"] # task["t1"]))
        => /\ task'["t1"].pc = "idle" \/ task'["t1"].full
           /\ \A k \in DOMAIN calls :
                 calls'[k] = calls[k]
                    + (IF /\ (task["t1"].pc = "idle" \/ Rank(task["t1"].kind) < Rank(k))
                          /\ (task'["t1"].pc = "idle" \/ Rank(k) <= Rank(task'["t1"].kind))
                       THEN 1 ELSE 0)
           /\ task'["t1"].pc = "idle" => DOMAIN task'["t1"].results = SyncTypes

(* what a full sync returned is, per entity type, the counters of the run  *)
(* it made for that type, whether that run ended in success or in error    *)
FullSyncReturnsCounters ==
    (task["t1"].pc = "idle" /\ DOMAIN task["t1"].results = SyncTypes)
        => \A k \in SyncTypes :
              /\ RunsOf("s1", k) # {}
              /\ Terminal(LatestRun("s1", k).status)
              /\ task["t1"].results[k].processed = LatestRun("s1", k).records_processed
              /\ task["t1"].results[k].failed = LatestRun("s1", k).records_failed

RemoteOrder(o) ==
    {node \in Nodes(Catalogue["orders"][remote[o.shop_domain]["orders"]]) :
        StripGid(node.id, "Order") = o.shopify_order_id}

AllProductsGiven(node) == \A i \in DOMAIN node.items : ~IsNone(node.items[i].product)

StoredItemFields(tb, o) == {ItemFields(r) : r \in {q \in tb["line_items"] : q.order_id = o.id}}

(* C38: across any sync of an existing order, counted as failed or not,    *)
(* the line items stored for the order afterwards are the ones stored      *)
(* before or the ones of the current remote record, never none or a part   *)
(* of them.                                                                *)
C38_LineItemsOldOrNew ==
    [][\A o \in tbl["orders"] :
          \/ StoredItemFields(tbl', o) = StoredItemFields(tbl, o)
          \/ \E node \in RemoteOrder(o) :
                /\ AllProductsGiven(node)
                /\ StoredItemFields(tbl', o)
                      = {RemoteItemFields(node.items[i]) : i \in DOMAIN node.items}]_vars

(* C39: a token is stored for a shop only through a callback that          *)
(* presented a state issued by initiate_auth for that shop, and a state is *)
(* accepted at most once: every callback accepted or stored carries an     *)
(* issued (state, shop) pair, every token in access_tokens was stored by   *)
(* such a callback, and no state value is accepted twice.                  *)
C39_StateIssuedAndUsedOnce ==
    /\ \A e \in oauth.stored \cup oauth.flight : e \in oauth.issued
    /\ \A s \in Shops : oauth.tokens[s] # "none" => \E e \in oauth.stored : e.shop = s
    /\ \A i, j \in DOMAIN oauth.log :
          (/\ oauth.log[i].kind = "accepted"
           /\ oauth.log[j].kind = "accepted"
           /\ oauth.log[i].state = oauth.log[j].state) => i = j

(* a token is stored for s1 from an accepted callback, and the callback    *)
(* that presented the same state for s1 once more was rejected             *)
C39_Witness ==
    /\ oauth.tokens["s1"] # "none"
    /\ \E i, j \in DOMAIN oauth.log :
          /\ i < j
          /\ oauth.log[i] = [kind |-> "accepted", state |-> 1, shop |-> "s1"]
          /\ oauth.log[j] = [kind |-> "rejected", state |-> 1, shop |-> "s1"]
    /\ [state |-> 1, shop |-> "s1"] \in oauth.stored

====
